---- MODULE Spec2Model ----
(***************************************************************************)
(* Model of the object-storage layer of prenode/tender-scraper-analyzer:   *)
(*   - retry_s3_operation, the retry decorator (document_storage.py),      *)
(*   - S3DocumentStorage.upload_file / download_file / file_exists /       *)
(*     get_bucket_info / update_metadata (document_storage.py),            *)
(*   - TenderStorage.__init__ / upload_new_tender / add_to_tender          *)
(*     (tender_storage.py).                                                *)
(*                                                                         *)
(* The specifications:                                                     *)
(*   SpecRetry      the decorator's wrapper around an arbitrary function,  *)
(*   Spec, SpecConc TenderStorage instances working on one bucket and one  *)
(*                  working directory,                                     *)
(*   SpecIndex      get_bucket_info and update_metadata called directly,   *)
(*   SpecStore, SpecStoreConc  the object operations of S3DocumentStorage, *)
(*   SpecPlan       _get_multipart_config,                                 *)
(*   SpecList       list_files,                                            *)
(*   SpecClient     __init__, reconnect and the operations of one object,  *)
(*   SpecGroup      upload_new_tender followed by get_tender_documents,    *)
(*   SpecPrefix     the same for group ids one of which begins the other,  *)
(*   SpecSeq        two TenderStorage instances used one after the other,  *)
(*   SpecScratch    SpecIndex with one more failing remote call,           *)
(*   SpecBudget     calls of a decorated method beside reconnect().        *)
(***************************************************************************)
EXTENDS Integers, Sequences, FiniteSets, TLC

(***************************************************************************)
(* Bounds of the model.                                                    *)
(***************************************************************************)
\* largest max_retries the decorator is configured with in SpecRetry
MaxRetriesIn == 3
\* number of operations the caller of Spec starts on its TenderStorage
MaxOps == 2
\* number of remote calls that fail in one behaviour of Spec (one more in
\* SpecScratch)
MaxFaults == 1
\* largest value of time.time() read in one behaviour of Spec
MaxClock == 1
\* largest file size, in MiB, that SpecPlan plans a transfer for
MaxSizeMiB == 1100
\* number of remote calls that fail in one behaviour of SpecList
MaxListFaults == 2
\* number of reconnect() calls in one behaviour of SpecClient
MaxReconnects == 1

(***************************************************************************)
(* Program constants.                                                      *)
(***************************************************************************)
\* max_retries of every decorated method: @retry_s3_operation(max_retries=3)
MAX_RETRIES == 3

\* error_codes=[...] of upload_file's decorator
UPLOAD_FILE_ERROR_CODES == {"RequestTimeout", "ConnectionError", "InternalError"}

\* metadata_file = "bucket_metadata.json"
metadata_file == "bucket_metadata.json"

(***************************************************************************)
(* The retry decorator.                                                    *)
(***************************************************************************)
\* What one invocation of the wrapped function does: it returns a value, or
\* raises botocore's ClientError with an error code, or raises anything else.
Ret(v) == [kind |-> "return", value |-> v, code |-> "-"]

ClientError(c) == [kind |-> "ClientError", value |-> FALSE, code |-> c]

OtherException == [kind |-> "Exception", value |-> FALSE, code |-> "-"]

\* The codes a remote failure carries in the model: three transient ones and
\* two that are not.
TransientCodes == {"RequestTimeout", "ConnectionError", "InternalError"}

PermanentCodes == {"NoSuchKey", "AccessDenied"}

AllCodes == TransientCodes \cup PermanentCodes

\* The error_codes argument: None, or a list of codes.
NoCodes == [given |-> FALSE, codes |-> {}]

Codes(S) == [given |-> TRUE, codes |-> S]

\* Python's truth value of error_codes: None and [] are false.
Truthy(error_codes) == error_codes.given /\ error_codes.codes # {}

RECURSIVE Pow2(_)
Pow2(n) == IF n <= 0 THEN 1 ELSE 2 * Pow2(n - 1)

\* An off-by-one variant of wrapper: the budget test is >= instead of >.
wrapper_ge(res, retries, max_retries, error_codes) ==
    IF res.kind = "return"
    THEN [act |-> "return", retries |-> retries, delay |-> 0]
    ELSE IF res.kind = "ClientError"
    THEN IF Truthy(error_codes) /\ res.code \notin error_codes.codes
         THEN [act |-> "raise", retries |-> retries, delay |-> 0]
         ELSE IF retries + 1 >= max_retries
              THEN [act |-> "raise", retries |-> retries + 1, delay |-> 0]
              ELSE [act |-> "retry", retries |-> retries + 1,
                    delay |-> Pow2(retries)]
    ELSE [act |-> "raise", retries |-> retries, delay |-> 0]

\* A variant of wrapper whose delay exponent is retries instead of
\* retries - 1 (the count after the increment).
wrapper_late(res, retries, max_retries, error_codes) ==
    IF res.kind = "return"
    THEN [act |-> "return", retries |-> retries, delay |-> 0]
    ELSE IF res.kind = "ClientError"
    THEN IF Truthy(error_codes) /\ res.code \notin error_codes.codes
         THEN [act |-> "raise", retries |-> retries, delay |-> 0]
         ELSE IF retries + 1 > max_retries
              THEN [act |-> "raise", retries |-> retries + 1, delay |-> 0]
              ELSE [act |-> "retry", retries |-> retries + 1,
                    delay |-> Pow2(retries + 1)]
    ELSE [act |-> "raise", retries |-> retries, delay |-> 0]

\* One pass through the wrapper's "while True" body, given what func did:
\* the wrapper returns func's value, re-raises, or sleeps and loops.
\* delay is in units of backoff_factor: backoff_factor * 2 ** (retries - 1).
wrapper(res, retries, max_retries, error_codes) ==
    IF res.kind = "return"
    THEN [act |-> "return", retries |-> retries, delay |-> 0]
    ELSE IF res.kind = "ClientError"
    THEN IF Truthy(error_codes) /\ res.code \notin error_codes.codes
         THEN [act |-> "raise", retries |-> retries, delay |-> 0]
         ELSE IF retries + 1 > max_retries
              THEN [act |-> "raise", retries |-> retries + 1, delay |-> 0]
              ELSE [act |-> "retry", retries |-> retries + 1,
                    delay |-> Pow2(retries)]
    ELSE [act |-> "raise", retries |-> retries, delay |-> 0]

(***************************************************************************)
(* Data: index documents, files and keys.                                  *)
(***************************************************************************)
\* self.bucket_name
BucketName == "tenders"

\* the tender ids callers pass (data.get("id"), tender_id)
GroupIds == {"t1", "t2"}

\* the data dict of a tender, as the scrapers build it: its id and a payload
DataOf(g) == {[id |-> g, title |-> "y"]}

NullData == [id |-> "-", title |-> "-"]

\* local document paths, as lists of their '/'-separated parts
PathA == <<"downloads", "a.pdf">>

PathB == <<"tmp", "b.pdf">>

PathLists == {<<>>, <<PathA, PathB>>}

\* str(document_path).split('/')[-1]
split_last(path) == path[Len(path)]

\* f"{data.get('id')}/{basename}"
TenderKey(g, path) == <<g, split_last(path)>>

\* f"{tender_id}/documents/{basename}"
DocumentsKey(g, path) == <<g, "documents", split_last(path)>>

MetadataKey == <<metadata_file>>

\* The value under "tender_id": a Python list or a Python dict.
PyList == [shape |-> "list", items |-> <<>>]

PyDict(f) == [shape |-> "dict", items |-> f]

\* d[key] = value on a dict
DictSet(f, key, value) ==
    [x \in (DOMAIN f) \cup {key} |-> IF x = key THEN value ELSE f[x]]

GroupRecord(publication, documents, data) ==
    [publication |-> publication, documents |-> documents, data |-> data]

IndexDoc(updated_at, tender_id) ==
    [bucket |-> BucketName, updated_at |-> updated_at, tender_id |-> tender_id]

NullDoc == [bucket |-> "-", updated_at |-> 0, tender_id |-> PyList]

\* The content of a file or of a stored object: no such file, a file of
\* length zero (just opened for writing), or the JSON text of a document.
NoFile == [kind |-> "none", doc |-> NullDoc]

EmptyFile == [kind |-> "empty", doc |-> NullDoc]

\* json.dump(metadata, f): ids are strings and flags are booleans, which JSON
\* text carries unchanged.
json_dump(doc) == [kind |-> "json", doc |-> doc]

\* json.load(f) of a file that holds JSON text
json_load(file) == file.doc

\* the metadata dict get_bucket_info builds when the file is absent
fresh_metadata(t) == IndexDoc(t, PyList)

\* An index document that is in the bucket before the program starts: one
\* whose "tender_id" is a dict, the shape upload_new_tender and add_to_tender
\* work on.
SeedRecord == GroupRecord(TRUE, FALSE, [id |-> "t1", title |-> "x"])

InitialStored ==
    { NoFile,
      json_dump(IndexDoc(0, PyDict(<<>>))),
      json_dump(IndexDoc(0, PyDict(DictSet(<<>>, "t1", SeedRecord)))) }

(***************************************************************************)
(* State.                                                                  *)
(***************************************************************************)
\* TenderStorage instances; they share the bucket and the working directory.
Inst == {"A", "B"}

VARIABLES
    \* --- SpecRetry: one call of a decorated function
    w_cfg,        \* [max_retries, error_codes] of the decorator
    w_retries,    \* the wrapper's local variable retries
    w_calls,      \* what each invocation of func did, in order
    w_slept,      \* the delays passed to time.sleep, in units of backoff_factor
    w_status,     \* "running", "returned" or "raised"
    w_result,     \* the value returned or the exception raised
    \* --- Spec: the bucket, the working directory, the clock
    stored,       \* the object bucket_metadata.json in the bucket
    objects,      \* the keys of the other objects in the bucket
    local_file,   \* the file bucket_metadata.json in the working directory
    now,          \* time.time()
    fault_budget, \* remote calls that may still fail
    live,         \* the instances the callers construct
    quota,        \* operations each instance's caller may still start
    \* --- Spec: per TenderStorage instance
    pc,           \* position in the code
    ret,          \* where get_bucket_info returns to
    bucket_info,  \* self.bucket_info
    args,         \* the running (or last) operation and its arguments
    k,            \* index into document_paths
    metadata,     \* get_bucket_info's local variable / return value
    retries,      \* the wrapper's local variable retries of the running call
    calls,        \* invocations of the s3_client method in the running call
    puts,         \* the upload_file calls of the operation: key, result, calls
    um_result,    \* update_metadata's last return value and its upload's result
    pre,          \* the stored index when the operation started
    pre_info,     \* self.bucket_info when the operation started
    pre_loaded,   \* whether every constructor had returned when it started
    result,       \* how the last operation ended
    \* --- SpecStore: the bucket's objects, the local files, the callers
    bucket,       \* the content of the object at each key, or Absent
    disk,         \* the content of the local file at each path, or Absent
    settled,      \* per key: the content of the last successful put, while
                  \* no later put or delete on the key has started
    th,           \* per calling thread: the running (or last) call
    \* --- SpecPlan: one call of _get_multipart_config
    file_size,    \* the argument file_size
    transfer_config, \* the dictionary returned, or NoConfig before the call
    \* --- SpecClient: one S3DocumentStorage object and its caller
    environ,      \* os.environ's S3_BUCKET_NAME
    bucket_name_arg, \* the constructor's argument bucket_name
    self,         \* the object's attributes
    c_pc,         \* position in __init__ or in a reconnect(), or how
                  \* __init__ ended
    caller_log    \* the methods the caller invoked on the object, in order

wvars == <<w_cfg, w_retries, w_calls, w_slept, w_status, w_result>>

svars == <<stored, objects, local_file, now, fault_budget, live, quota>>

ivars == <<pc, ret, bucket_info, args, k, metadata, retries, calls, puts,
           um_result, pre, pre_info, pre_loaded, result>>

ovars == <<bucket, disk, settled, th>>

pvars == <<file_size, transfer_config>>

cvars == <<environ, bucket_name_arg, self, c_pc, caller_log>>

vars == <<wvars, svars, ivars, ovars, pvars, cvars>>

NoArgs == [op |-> "none", id |-> "-", data |-> NullData, paths |-> <<>>,
           publication |-> FALSE]

NoResult == [kind |-> "none", exc |-> "-"]

NoUm == [returned |-> FALSE, value |-> FALSE, uploaded |-> FALSE]

(***************************************************************************)
(* Data of SpecPlan and SpecClient: sizes, transfer configurations, the    *)
(* attributes of an S3DocumentStorage object.                              *)
(***************************************************************************)
\* Python's None, for an argument or an environment variable that is a
\* string when it is set
None == "None"

\* file_size: None, or a number of bytes
UnknownSize == [known |-> FALSE, bytes |-> 0]

SizeOf(n) == [known |-> TRUE, bytes |-> n]

\* no dictionary: _get_multipart_config has not returned
NoConfig == [multipart_threshold |-> 0, multipart_chunksize |-> 0,
             max_concurrency |-> 0, use_threads |-> FALSE]

\* an attribute that was never assigned
Unset == "unset"

\* no boto3 object: the handles are numbered 1, 2, ... as they are built
NoHandle == 0

\* the object before __init__ assigned anything
NewObject ==
    [lock |-> Unset, bucket_name |-> Unset, settings |-> Unset,
     session |-> NoHandle, s3_client |-> NoHandle, s3_resource |-> NoHandle,
     bucket |-> NoHandle, bucket_exists_cache |-> Unset]

\* the object after __init__(bucket_name=BucketName) returned
BuiltObject ==
    [lock |-> "RLock", bucket_name |-> BucketName, settings |-> "stored",
     session |-> 1, s3_client |-> 1, s3_resource |-> 1,
     bucket |-> 1, bucket_exists_cache |-> None]

\* _get_multipart_config not called
InitPlanIdle ==
    /\ file_size = UnknownSize
    /\ transfer_config = NoConfig

\* an object constructed with its bucket name, on which nothing was called
InitClientBuilt ==
    /\ environ = None
    /\ bucket_name_arg = BucketName
    /\ self = BuiltObject
    /\ c_pc = "done"
    /\ caller_log = <<"__init__">>

(***************************************************************************)
(* Data of SpecStore: keys, local paths, contents, calls.                  *)
(***************************************************************************)
\* the threads that call the storage client
Thr == {"P", "Q"}

\* no object at the key, no file at the path
Absent == "absent"

\* no successful put on the key since the last put or delete started
Unsettled == "?"

\* a local path at which there is no file
PathMissing == <<"tmp", "none.pdf">>

\* the local_path of download_file
Dest == <<"out", "d.bin">>

SourcePaths == {PathA, PathB, PathMissing}

\* the local files before the calls
InitialDisk ==
    [p \in SourcePaths \cup {Dest} |->
        IF p = PathA THEN "a" ELSE IF p = PathB THEN "b" ELSE Absent]

\* what the file_obj of upload_fileobj holds
StreamContent == "s"

\* the s3_key arguments of the calls
KeyA == <<"a.pdf">>

KeyB == <<"b.pdf">>

\* the s3_prefix arguments of upload_files ("" for None)
Prefixes == {"", "p"}

\* os.path.basename(file_path)
basename(file_path) == file_path[Len(file_path)]

\* upload_files: os.path.join(s3_prefix or "", filename) if s3_prefix else filename
s3_key_of(s3_prefix, file_path) ==
    IF s3_prefix # "" THEN <<s3_prefix, basename(file_path)>>
    ELSE <<basename(file_path)>>

\* every key a call can name
StoreKeys ==
    {KeyA, KeyB} \cup {s3_key_of(x, p) : x \in Prefixes, p \in SourcePaths}

\* the file_paths arguments of upload_files
FileLists == {<<PathA, PathMissing, PathB>>, <<PathB, PathB>>}

\* the buckets before the calls
InitialBuckets ==
    { [key \in StoreKeys |-> Absent],
      [key \in StoreKeys |-> IF key = KeyA THEN "old" ELSE Absent] }

\* A prefix argument of list_files: the path components it names, and
\* whether it ends with "/".  "" is PrefixOf(<<>>, FALSE).
PrefixOf(parts, slash) == [parts |-> parts, slash |-> slash]

EmptyPrefix == PrefixOf(<<>>, FALSE)

NoCall == [kind |-> "none", value |-> FALSE]

\* the thread's previous call: what it was, on which key, how it ended, and
\* what the key held when it started
NoBefore == [op |-> "none", key |-> KeyA, result |-> NoCall, had |-> Absent]

\* a thread that has made no call and may make q calls
IdleThread(q) ==
    [pc |-> "idle", quota |-> q, op |-> "none", key |-> KeyA, path |-> PathA,
     paths |-> <<>>, prefix |-> "", i |-> 1, retries |-> 0, calls |-> 0,
     result |-> NoCall, results |-> <<>>, attempts |-> <<>>, buf |-> Absent,
     transfers |-> 0, probe |-> "-", plan |-> "-", clean |-> TRUE,
     from |-> Unsettled, pre |-> [key \in StoreKeys |-> Absent],
     pre_disk |-> InitialDisk, before |-> NoBefore,
     list_prefix |-> EmptyPrefix, listing |-> <<>>, exists |-> "-",
     temp_clients |-> 0, clients |-> <<>>]

\* the storage client with no caller
InitStoreIdle ==
    /\ bucket = [key \in StoreKeys |-> Absent]
    /\ disk = InitialDisk
    /\ settled = [key \in StoreKeys |-> Unsettled]
    /\ th = [t \in Thr |-> IdleThread(0)]
    /\ InitPlanIdle
    /\ InitClientBuilt

\* the instance variables before any TenderStorage is constructed
InitInstances ==
    /\ pc = [i \in Inst |-> "new"]
    /\ ret = [i \in Inst |-> "-"]
    /\ bucket_info = [i \in Inst |-> NullDoc]
    /\ args = [i \in Inst |-> NoArgs]
    /\ k = [i \in Inst |-> 1]
    /\ metadata = [i \in Inst |-> NullDoc]
    /\ retries = [i \in Inst |-> 0]
    /\ calls = [i \in Inst |-> 0]
    /\ puts = [i \in Inst |-> <<>>]
    /\ um_result = [i \in Inst |-> NoUm]
    /\ pre = [i \in Inst |-> NoFile]
    /\ pre_info = [i \in Inst |-> NullDoc]
    /\ pre_loaded = [i \in Inst |-> FALSE]
    /\ result = [i \in Inst |-> NoResult]

\* the bucket and working directory with nothing in them
InitStorageIdle ==
    /\ stored = NoFile
    /\ objects = {}
    /\ local_file = NoFile
    /\ now = 1
    /\ fault_budget = 0
    /\ live = {}
    /\ quota = [i \in Inst |-> 0]

\* the wrapper before it is entered (retries = 0)
InitWrapperIdle ==
    /\ w_cfg = [max_retries |-> MAX_RETRIES, error_codes |-> NoCodes]
    /\ w_retries = 0
    /\ w_calls = <<>>
    /\ w_slept = <<>>
    /\ w_status = "running"
    /\ w_result = Ret(FALSE)

(***************************************************************************)
(* SpecRetry: the decorator's wrapper around an arbitrary func.            *)
(***************************************************************************)
\* what func may do at one invocation
FuncOutcomes ==
    {Ret(TRUE), Ret(FALSE), OtherException} \cup {ClientError(c) : c \in AllCodes}

\* the decorator's arguments
ErrorCodeArgs == {NoCodes, Codes({}), Codes(UPLOAD_FILE_ERROR_CODES)}

InitRetry ==
    /\ InitStoreIdle
    /\ w_cfg \in [max_retries : 0..MaxRetriesIn, error_codes : ErrorCodeArgs]
    /\ w_retries = 0
    /\ w_calls = <<>>
    /\ w_slept = <<>>
    /\ w_status = "running"
    /\ w_result = Ret(FALSE)
    /\ InitStorageIdle
    /\ InitInstances

\* One iteration of the wrapper's loop: func is invoked, and the wrapper
\* returns its value, re-raises its exception, or sleeps and loops.
WrapperCall ==
    /\ w_status = "running"
    /\ \E o \in FuncOutcomes :
         LET w == wrapper(o, w_retries, w_cfg.max_retries, w_cfg.error_codes)
         IN  /\ w_calls' = Append(w_calls, o)
             /\ w_retries' = w.retries
             /\ w_slept' = IF w.act = "retry" THEN Append(w_slept, w.delay)
                           ELSE w_slept
             /\ w_status' = CASE w.act = "return" -> "returned"
                              [] w.act = "raise" -> "raised"
                              [] OTHER -> "running"
             /\ w_result' = IF w.act = "retry" THEN w_result ELSE o
    /\ UNCHANGED <<w_cfg, svars, ivars, ovars, pvars, cvars>>

NextRetry == WrapperCall

SpecRetry == InitRetry /\ [][NextRetry]_vars

(***************************************************************************)
(* Spec: remote calls and the methods of S3DocumentStorage.                *)
(***************************************************************************)
\* How a call of the S3 client may fail: with a transient remote error, or
\* with an exception that is no ClientError (no connection to the endpoint).
RemoteFailures == {ClientError("InternalError"), OtherException}

\* what the next call of the S3 client may do
RemoteOutcomes ==
    {Ret(TRUE)} \cup (IF fault_budget > 0 THEN RemoteFailures ELSE {})

CountFault(o) == IF o.kind = "return" THEN fault_budget ELSE fault_budget - 1

\* the error of a remote call: the ClientError's code, "Exception", or "-"
ErrName(o) ==
    IF o.kind = "ClientError" THEN o.code
    ELSE IF o.kind = "Exception" THEN "Exception" ELSE "-"

\* time.time() does not go back
Tick == IF now < MaxClock THEN now + 1 ELSE now

\* file_exists(s3_key): head_object answers; a ClientError (404 for a key
\* that is not there, or any other) gives False; other exceptions propagate.
file_exists(o, present) ==
    IF o.kind = "Exception" THEN o
    ELSE IF o.kind = "return" /\ present THEN Ret(TRUE) ELSE Ret(FALSE)

\* upload_file's body, given what s3_client.upload_file did: True, or False
\* for any exception.
upload_file(o) == IF o.kind = "return" THEN Ret(TRUE) ELSE Ret(FALSE)

\* download_file's body from s3_client.download_file on: True, or False for
\* any exception (a key that is gone included).
download_file(o, present) ==
    IF o.kind = "return" /\ present THEN Ret(TRUE) ELSE Ret(FALSE)

\* update_metadata's return value, given what its upload_file call returned:
\* the value is not looked at.
update_metadata(uploaded) == TRUE

\* upload_file under its decorator, after one invocation of the S3 client
UploadWrapped(i, o) ==
    wrapper(upload_file(o), retries[i], MAX_RETRIES, Codes(UPLOAD_FILE_ERROR_CODES))

\* download_file under its decorator, after one pass through its body
DownloadWrapped(i, o) ==
    wrapper(download_file(o, stored.kind # "none"), retries[i], MAX_RETRIES, NoCodes)

\* s3_client.upload_file: on success the object at key holds what the local
\* file holds at this moment.
PutEffect(key, o) ==
    IF o.kind = "return"
    THEN IF key = MetadataKey
         THEN stored' = local_file /\ UNCHANGED objects
         ELSE objects' = objects \cup {key} /\ UNCHANGED stored
    ELSE UNCHANGED <<stored, objects>>

\* the wrapper's counters, and the record of the finished upload_file call
UploadBookkeeping(i, key, o, w) ==
    /\ fault_budget' = CountFault(o)
    /\ retries' = [retries EXCEPT ![i] = IF w.act = "retry" THEN w.retries ELSE 0]
    /\ calls' = [calls EXCEPT ![i] = IF w.act = "retry" THEN @ + 1 ELSE 0]
    /\ puts' = [puts EXCEPT ![i] =
                  IF w.act = "retry" THEN @
                  ELSE Append(@, [key |-> key,
                                  ok |-> (w.act = "return" /\ upload_file(o).value),
                                  calls |-> calls[i] + 1,
                                  err |-> ErrName(o)])]

Returned == [kind |-> "return", exc |-> "-"]

Raised(e) == [kind |-> "raise", exc |-> e]

\* The operation ends: it returns, or its exception reaches the caller. A
\* constructor that raises leaves no instance.
Finish(i, r) ==
    /\ pc' = [pc EXCEPT ![i] = IF args[i].op = "init" /\ r.kind = "raise"
                               THEN "new" ELSE "idle"]
    /\ result' = [result EXCEPT ![i] = r]

\* the bookkeeping at the start of an operation
Begin(i, a) ==
    /\ args' = [args EXCEPT ![i] = a]
    /\ k' = [k EXCEPT ![i] = 1]
    /\ puts' = [puts EXCEPT ![i] = <<>>]
    /\ um_result' = [um_result EXCEPT ![i] = NoUm]
    /\ pre' = [pre EXCEPT ![i] = stored]
    /\ pre_info' = [pre_info EXCEPT ![i] = bucket_info[i]]
    /\ pre_loaded' = [pre_loaded EXCEPT ![i] =
                         \A j \in live : args[j].op # "none" /\ pc[j] # "new"
                                          /\ (args[j].op = "init" => pc[j] = "idle")]
    /\ result' = [result EXCEPT ![i] = NoResult]

(***************************************************************************)
(* TenderStorage.__init__                                                  *)
(***************************************************************************)
Construct(i) ==
    /\ i \in live
    /\ pc[i] = "new"
    /\ Begin(i, [NoArgs EXCEPT !.op = "init"])
    /\ pc' = [pc EXCEPT ![i] = "gbi_exists"]
    /\ ret' = [ret EXCEPT ![i] = "init_done"]
    /\ UNCHANGED <<wvars, pvars, cvars, ovars, svars, bucket_info, metadata, retries, calls>>

InitDone(i) ==
    /\ pc[i] = "init_done"
    /\ bucket_info' = [bucket_info EXCEPT ![i] = metadata[i]]
    /\ Finish(i, Returned)
    /\ UNCHANGED <<wvars, pvars, cvars, ovars, svars, ret, args, k, metadata, retries, calls, puts,
                   um_result, pre, pre_info, pre_loaded>>

(***************************************************************************)
(* S3DocumentStorage.get_bucket_info                                       *)
(***************************************************************************)
\* if not self.file_exists(metadata_file): ... metadata = {...}
GbiExists(i) ==
    /\ pc[i] = "gbi_exists"
    /\ \E o \in RemoteOutcomes :
         LET e == file_exists(o, stored.kind # "none") IN
         /\ fault_budget' = CountFault(o)
         /\ IF e.kind = "Exception"
            THEN /\ Finish(i, Raised("Exception"))
                 /\ UNCHANGED <<metadata, now>>
            ELSE IF e.value
            THEN /\ pc' = [pc EXCEPT ![i] = "dl_exists"]
                 /\ UNCHANGED <<metadata, now, result>>
            ELSE /\ pc' = [pc EXCEPT ![i] = "gbi_open"]
                 /\ metadata' = [metadata EXCEPT ![i] = fresh_metadata(now)]
                 /\ now' = Tick
                 /\ UNCHANGED result
    /\ UNCHANGED <<wvars, pvars, cvars, ovars, stored, objects, local_file, live, quota, ret, bucket_info,
                   args, k, retries, calls, puts, um_result, pre, pre_info, pre_loaded>>

\* with open(metadata_file, "w") as f: the file is created or cut to length 0
GbiOpen(i) ==
    /\ pc[i] = "gbi_open"
    /\ local_file' = EmptyFile
    /\ pc' = [pc EXCEPT ![i] = "gbi_dump"]
    /\ UNCHANGED <<wvars, pvars, cvars, ovars, stored, objects, now, fault_budget, live, quota, ret, bucket_info,
                   args, k, metadata, retries, calls, puts, um_result, pre, pre_info, pre_loaded, result>>

\* json.dump(metadata, f), and the file is closed
GbiDump(i) ==
    /\ pc[i] = "gbi_dump"
    /\ local_file' = json_dump(metadata[i])
    /\ pc' = [pc EXCEPT ![i] = "gbi_upload"]
    /\ UNCHANGED <<wvars, pvars, cvars, ovars, stored, objects, now, fault_budget, live, quota, ret, bucket_info,
                   args, k, metadata, retries, calls, puts, um_result, pre, pre_info, pre_loaded, result>>

\* self.upload_file(metadata_file, metadata_file); return metadata
GbiUpload(i) ==
    /\ pc[i] = "gbi_upload"
    /\ \E o \in RemoteOutcomes :
         LET w == UploadWrapped(i, o) IN
         /\ PutEffect(MetadataKey, o)
         /\ UploadBookkeeping(i, MetadataKey, o, w)
         /\ CASE w.act = "retry" -> UNCHANGED <<pc, result>>
              [] w.act = "raise" -> Finish(i, Raised(ErrName(o)))
              [] OTHER -> /\ pc' = [pc EXCEPT ![i] = ret[i]]
                          /\ UNCHANGED result
    /\ UNCHANGED <<wvars, pvars, cvars, ovars, local_file, now, live, quota, ret, bucket_info, args, k,
                   metadata, um_result, pre, pre_info, pre_loaded>>

\* download_file: if not self.file_exists(s3_key): return False
DlExists(i) ==
    /\ pc[i] = "dl_exists"
    /\ \E o \in RemoteOutcomes :
         LET e == file_exists(o, stored.kind # "none") IN
         /\ fault_budget' = CountFault(o)
         /\ pc' = [pc EXCEPT ![i] = IF e.kind = "return" /\ e.value
                                    THEN "dl_size" ELSE "gbi_load"]
    /\ UNCHANGED <<wvars, pvars, cvars, ovars, stored, objects, local_file, now, live, quota, ret,
                   bucket_info, args, k, metadata, retries, calls, puts,
                   um_result, pre, pre_info, pre_loaded, result>>

\* download_file: head_object for the size; a failure is logged
DlSize(i) ==
    /\ pc[i] = "dl_size"
    /\ \E o \in RemoteOutcomes : fault_budget' = CountFault(o)
    /\ pc' = [pc EXCEPT ![i] = "dl_get"]
    /\ UNCHANGED <<wvars, pvars, cvars, ovars, stored, objects, local_file, now, live, quota, ret,
                   bucket_info, args, k, metadata, retries, calls, puts,
                   um_result, pre, pre_info, pre_loaded, result>>

\* download_file: s3_client.download_file replaces the local file on success
DlGet(i) ==
    /\ pc[i] = "dl_get"
    /\ \E o \in RemoteOutcomes :
         LET w == DownloadWrapped(i, o) IN
         /\ fault_budget' = CountFault(o)
         /\ local_file' = IF download_file(o, stored.kind # "none").value
                          THEN stored ELSE local_file
         /\ retries' = [retries EXCEPT ![i] = IF w.act = "retry" THEN w.retries ELSE 0]
         /\ CASE w.act = "retry" -> /\ pc' = [pc EXCEPT ![i] = "dl_exists"]
                                    /\ UNCHANGED result
              [] w.act = "raise" -> Finish(i, Raised(ErrName(o)))
              [] OTHER -> /\ pc' = [pc EXCEPT ![i] = "gbi_load"]
                          /\ UNCHANGED result
    /\ UNCHANGED <<wvars, pvars, cvars, ovars, stored, objects, now, live, quota, ret, bucket_info, args, k,
                   metadata, calls, puts, um_result, pre, pre_info, pre_loaded>>

\* with open(metadata_file, "r") as f: metadata = json.load(f); return metadata
GbiLoad(i) ==
    /\ pc[i] = "gbi_load"
    /\ CASE local_file.kind = "none" ->
              Finish(i, Raised("FileNotFoundError")) /\ UNCHANGED metadata
         [] local_file.kind \in {"empty", "garbage"} ->
              Finish(i, Raised("JSONDecodeError")) /\ UNCHANGED metadata
         [] OTHER ->
              /\ metadata' = [metadata EXCEPT ![i] = json_load(local_file)]
              /\ pc' = [pc EXCEPT ![i] = ret[i]]
              /\ UNCHANGED result
    /\ UNCHANGED <<wvars, pvars, cvars, ovars, svars, ret, bucket_info, args, k, retries, calls, puts,
                   um_result, pre, pre_info, pre_loaded>>

(***************************************************************************)
(* TenderStorage.upload_new_tender                                         *)
(***************************************************************************)
StartUploadNewTender(i, data, document_paths, publication) ==
    /\ pc[i] = "idle"
    /\ quota[i] > 0
    /\ quota' = [quota EXCEPT ![i] = @ - 1]
    /\ Begin(i, [op |-> "upload_new_tender", id |-> data.id, data |-> data,
                 paths |-> document_paths, publication |-> publication])
    /\ pc' = [pc EXCEPT ![i] = IF document_paths = <<>> THEN "gbi_exists"
                               ELSE "unt_upload"]
    /\ ret' = [ret EXCEPT ![i] = "unt_check"]
    /\ UNCHANGED <<wvars, pvars, cvars, ovars, stored, objects, local_file, now, fault_budget, live, bucket_info,
                   metadata, retries, calls>>

\* for document_path in document_paths: self.s3_document_storage.upload_file(...)
\* and, after the last one, the call of get_bucket_info
UntUpload(i) ==
    /\ pc[i] = "unt_upload"
    /\ \E o \in RemoteOutcomes :
         LET w == UploadWrapped(i, o)
             key == TenderKey(args[i].data.id, args[i].paths[k[i]])
         IN
         /\ PutEffect(key, o)
         /\ UploadBookkeeping(i, key, o, w)
         /\ CASE w.act = "retry" -> UNCHANGED <<pc, k, result>>
              [] w.act = "raise" -> Finish(i, Raised(ErrName(o))) /\ UNCHANGED k
              [] OTHER ->
                   /\ k' = [k EXCEPT ![i] = @ + 1]
                   /\ pc' = [pc EXCEPT ![i] = IF k[i] < Len(args[i].paths)
                                              THEN "unt_upload" ELSE "gbi_exists"]
                   /\ UNCHANGED result
    /\ UNCHANGED <<wvars, pvars, cvars, ovars, local_file, now, live, quota, ret, bucket_info, args,
                   metadata, um_result, pre, pre_info, pre_loaded>>

\* A variant of UntCheck that assigns the group's record without testing
\* whether the id is already in the dict.
UntCheck_overwrite(i) ==
    /\ pc[i] = "unt_check"
    /\ LET tender_ids == bucket_info[i].tender_id
           id == args[i].data.id
       IN  IF tender_ids.shape = "list"
           THEN /\ Finish(i, Raised("TypeError"))
                /\ UNCHANGED bucket_info
           ELSE /\ bucket_info' =
                     [bucket_info EXCEPT ![i].tender_id.items =
                         DictSet(@, id, GroupRecord(args[i].publication, FALSE,
                                                    args[i].data))]
                /\ pc' = [pc EXCEPT ![i] = "um_open"]
                /\ UNCHANGED result
    /\ UNCHANGED <<wvars, pvars, cvars, ovars, svars, ret, args, k, metadata, retries, calls, puts,
                   um_result, pre, pre_info, pre_loaded>>

\* tender_ids = self.bucket_info.get("tender_id")
\* if data.get("id") not in tender_ids: tender_ids[data.get('id')] = {...}
\* (metadata, the value get_bucket_info just returned, is not used)
UntCheck(i) ==
    /\ pc[i] = "unt_check"
    /\ LET tender_ids == bucket_info[i].tender_id
           id == args[i].data.id
       IN  IF tender_ids.shape = "list"
           THEN \* id is not in the list; list[str] = ... raises TypeError
                /\ Finish(i, Raised("TypeError"))
                /\ UNCHANGED bucket_info
           ELSE IF id \in DOMAIN tender_ids.items
           THEN /\ Finish(i, Returned)
                /\ UNCHANGED bucket_info
           ELSE /\ bucket_info' =
                     [bucket_info EXCEPT ![i].tender_id.items =
                         DictSet(@, id, GroupRecord(args[i].publication, FALSE,
                                                    args[i].data))]
                /\ pc' = [pc EXCEPT ![i] = "um_open"]
                /\ UNCHANGED result
    /\ UNCHANGED <<wvars, pvars, cvars, ovars, svars, ret, args, k, metadata, retries, calls, puts,
                   um_result, pre, pre_info, pre_loaded>>

\* self.bucket_info = self.s3_document_storage.get_bucket_info()
UntRefresh(i) ==
    /\ pc[i] = "unt_refresh"
    /\ bucket_info' = [bucket_info EXCEPT ![i] = metadata[i]]
    /\ Finish(i, Returned)
    /\ UNCHANGED <<wvars, pvars, cvars, ovars, svars, ret, args, k, metadata, retries, calls, puts,
                   um_result, pre, pre_info, pre_loaded>>

(***************************************************************************)
(* S3DocumentStorage.update_metadata(self.bucket_info)                     *)
(***************************************************************************)
\* with open(metadata_file, "w") as f
UmOpen(i) ==
    /\ pc[i] = "um_open"
    /\ local_file' = EmptyFile
    /\ pc' = [pc EXCEPT ![i] = "um_dump"]
    /\ UNCHANGED <<wvars, pvars, cvars, ovars, stored, objects, now, fault_budget, live, quota, ret, bucket_info,
                   args, k, metadata, retries, calls, puts, um_result, pre, pre_info, pre_loaded, result>>

\* json.dump(metadata, f)
UmDump(i) ==
    /\ pc[i] = "um_dump"
    /\ local_file' = json_dump(bucket_info[i])
    /\ pc' = [pc EXCEPT ![i] = "um_upload"]
    /\ UNCHANGED <<wvars, pvars, cvars, ovars, stored, objects, now, fault_budget, live, quota, ret, bucket_info,
                   args, k, metadata, retries, calls, puts, um_result, pre, pre_info, pre_loaded, result>>

\* A variant of UmUpload after which upload_new_tender returns as
\* add_to_tender does, without the call of get_bucket_info.
UmUpload_return(i) ==
    /\ pc[i] = "um_upload"
    /\ \E o \in RemoteOutcomes :
         LET w == UploadWrapped(i, o)
             uploaded == upload_file(o).value
         IN
         /\ PutEffect(MetadataKey, o)
         /\ UploadBookkeeping(i, MetadataKey, o, w)
         /\ CASE w.act = "retry" -> UNCHANGED <<pc, ret, result, um_result>>
              [] w.act = "raise" ->
                   \* except Exception: return False
                   /\ um_result' = [um_result EXCEPT ![i] =
                          [returned |-> TRUE, value |-> FALSE, uploaded |-> FALSE]]
                   /\ Finish(i, Returned) /\ UNCHANGED ret
              [] OTHER ->
                   /\ um_result' = [um_result EXCEPT ![i] =
                          [returned |-> TRUE, value |-> update_metadata(uploaded),
                           uploaded |-> uploaded]]
                   /\ Finish(i, Returned) /\ UNCHANGED ret
    /\ UNCHANGED <<wvars, pvars, cvars, ovars, local_file, now, live, quota, bucket_info, args, k, metadata,
                   pre, pre_info, pre_loaded>>

\* self.upload_file(...); return True. Then upload_new_tender calls
\* get_bucket_info, and add_to_tender returns.
UmUpload(i) ==
    /\ pc[i] = "um_upload"
    /\ \E o \in RemoteOutcomes :
         LET w == UploadWrapped(i, o)
             uploaded == upload_file(o).value
         IN
         /\ PutEffect(MetadataKey, o)
         /\ UploadBookkeeping(i, MetadataKey, o, w)
         /\ CASE w.act = "retry" -> UNCHANGED <<pc, ret, result, um_result>>
              [] w.act = "raise" ->
                   \* except Exception: return False
                   /\ um_result' = [um_result EXCEPT ![i] =
                          [returned |-> TRUE, value |-> FALSE, uploaded |-> FALSE]]
                   /\ IF args[i].op = "upload_new_tender"
                      THEN /\ pc' = [pc EXCEPT ![i] = "gbi_exists"]
                           /\ ret' = [ret EXCEPT ![i] = "unt_refresh"]
                           /\ UNCHANGED result
                      ELSE Finish(i, Returned) /\ UNCHANGED ret
              [] OTHER ->
                   /\ um_result' = [um_result EXCEPT ![i] =
                          [returned |-> TRUE, value |-> update_metadata(uploaded),
                           uploaded |-> uploaded]]
                   /\ IF args[i].op = "upload_new_tender"
                      THEN /\ pc' = [pc EXCEPT ![i] = "gbi_exists"]
                           /\ ret' = [ret EXCEPT ![i] = "unt_refresh"]
                           /\ UNCHANGED result
                      ELSE Finish(i, Returned) /\ UNCHANGED ret
    /\ UNCHANGED <<wvars, pvars, cvars, ovars, local_file, now, live, quota, bucket_info, args, k, metadata,
                   pre, pre_info, pre_loaded>>

(***************************************************************************)
(* TenderStorage.add_to_tender                                             *)
(***************************************************************************)
StartAddToTender(i, tender_id, document_paths) ==
    /\ pc[i] = "idle"
    /\ quota[i] > 0
    /\ quota' = [quota EXCEPT ![i] = @ - 1]
    /\ Begin(i, [op |-> "add_to_tender", id |-> tender_id, data |-> NullData,
                 paths |-> document_paths, publication |-> FALSE])
    /\ pc' = [pc EXCEPT ![i] = IF document_paths = <<>> THEN "att_mark"
                               ELSE "att_upload"]
    /\ UNCHANGED <<wvars, pvars, cvars, ovars, stored, objects, local_file, now, fault_budget, live, ret,
                   bucket_info, metadata, retries, calls>>

\* for document_path in document_paths: self.s3_document_storage.upload_file(...)
AttUpload(i) ==
    /\ pc[i] = "att_upload"
    /\ \E o \in RemoteOutcomes :
         LET w == UploadWrapped(i, o)
             key == DocumentsKey(args[i].id, args[i].paths[k[i]])
         IN
         /\ PutEffect(key, o)
         /\ UploadBookkeeping(i, key, o, w)
         /\ CASE w.act = "retry" -> UNCHANGED <<pc, k, result>>
              [] w.act = "raise" -> Finish(i, Raised(ErrName(o))) /\ UNCHANGED k
              [] OTHER ->
                   /\ k' = [k EXCEPT ![i] = @ + 1]
                   /\ pc' = [pc EXCEPT ![i] = IF k[i] < Len(args[i].paths)
                                              THEN "att_upload" ELSE "att_mark"]
                   /\ UNCHANGED result
    /\ UNCHANGED <<wvars, pvars, cvars, ovars, local_file, now, live, quota, ret, bucket_info, args,
                   metadata, um_result, pre, pre_info, pre_loaded>>

\* A variant of AttMark that creates the record of an unknown tender_id
\* (setdefault) instead of raising KeyError.
AttMark_creates(i) ==
    /\ pc[i] = "att_mark"
    /\ LET tender_ids == bucket_info[i].tender_id
           tender_id == args[i].id
       IN  IF tender_ids.shape = "list"
           THEN /\ Finish(i, Raised("TypeError"))
                /\ UNCHANGED bucket_info
           ELSE /\ bucket_info' =
                     [bucket_info EXCEPT ![i].tender_id.items =
                         IF tender_id \in DOMAIN @
                         THEN [@ EXCEPT ![tender_id].documents = TRUE]
                         ELSE DictSet(@, tender_id, GroupRecord(FALSE, TRUE, NullData))]
                /\ pc' = [pc EXCEPT ![i] = "um_open"]
                /\ UNCHANGED result
    /\ UNCHANGED <<wvars, pvars, cvars, ovars, svars, ret, args, k, metadata, retries, calls, puts,
                   um_result, pre, pre_info, pre_loaded>>

\* data = self.bucket_info; data["tender_id"][tender_id]["documents"] = True
AttMark(i) ==
    /\ pc[i] = "att_mark"
    /\ LET tender_ids == bucket_info[i].tender_id
           tender_id == args[i].id
       IN  IF tender_ids.shape = "list"
           THEN \* list indices must be integers
                /\ Finish(i, Raised("TypeError"))
                /\ UNCHANGED bucket_info
           ELSE IF tender_id \notin DOMAIN tender_ids.items
           THEN /\ Finish(i, Raised("KeyError"))
                /\ UNCHANGED bucket_info
           ELSE /\ bucket_info' =
                     [bucket_info EXCEPT ![i].tender_id.items[tender_id].documents = TRUE]
                /\ pc' = [pc EXCEPT ![i] = "um_open"]
                /\ UNCHANGED result
    /\ UNCHANGED <<wvars, pvars, cvars, ovars, svars, ret, args, k, metadata, retries, calls, puts,
                   um_result, pre, pre_info, pre_loaded>>

(***************************************************************************)
(* Spec: the instances, each a sequential caller, interleaved.             *)
(***************************************************************************)
Init ==
    /\ InitStoreIdle
    /\ InitWrapperIdle
    /\ stored \in InitialStored
    /\ objects = {}
    /\ local_file = NoFile
    /\ now = 1
    /\ fault_budget = MaxFaults
    /\ live = {"A"}
    /\ quota = [i \in Inst |-> IF i = "A" THEN MaxOps ELSE 0]
    /\ InitInstances

\* Two callers, each with its own TenderStorage, each starting one operation;
\* no remote call fails.
InitConc ==
    /\ InitStoreIdle
    /\ InitWrapperIdle
    /\ stored \in InitialStored
    /\ objects = {}
    /\ local_file = NoFile
    /\ now = 1
    /\ fault_budget = 0
    /\ live = Inst
    /\ quota = [i \in Inst |-> 1]
    /\ InitInstances

Next ==
    \E i \in Inst :
        \/ Construct(i)
        \/ InitDone(i)
        \/ GbiExists(i)
        \/ GbiOpen(i)
        \/ GbiDump(i)
        \/ GbiUpload(i)
        \/ DlExists(i)
        \/ DlSize(i)
        \/ DlGet(i)
        \/ GbiLoad(i)
        \/ \E g \in GroupIds : \E data \in DataOf(g) :
             \E document_paths \in PathLists : \E publication \in BOOLEAN :
                StartUploadNewTender(i, data, document_paths, publication)
        \/ UntUpload(i)
        \/ UntCheck(i)
        \/ UntRefresh(i)
        \/ UmOpen(i)
        \/ UmDump(i)
        \/ UmUpload(i)
        \/ \E tender_id \in GroupIds : \E document_paths \in PathLists :
                StartAddToTender(i, tender_id, document_paths)
        \/ AttUpload(i)
        \/ AttMark(i)

Spec == Init /\ [][Next]_vars

SpecConc == InitConc /\ [][Next]_vars


(***************************************************************************)
(* Claims about the retry decorator, checked under SpecRetry.              *)
(***************************************************************************)
\* A failure the specification calls retryable: a remote error with a
\* transient code that is in the allow-list when one is given.
SpecRetryable(o, error_codes) ==
    /\ o.kind = "ClientError"
    /\ o.code \in TransientCodes
    /\ error_codes.given => o.code \in error_codes.codes

AllCallsRetryable ==
    \A n \in 1..Len(w_calls) : SpecRetryable(w_calls[n], w_cfg.error_codes)

\* C2: with max_retries = 3 and a func that fails with a retryable error at
\* every invocation, the wrapper never returns, keeps invoking func while
\* fewer than 4 invocations were made, and at the 4th failure raises that
\* last error: exactly 4 invocations, never more.
C2_RetryCount ==
    (w_cfg.max_retries = MAX_RETRIES /\ AllCallsRetryable) =>
        /\ Len(w_calls) <= MAX_RETRIES + 1
        /\ w_status # "returned"
        /\ w_status = "running" => Len(w_calls) <= MAX_RETRIES
        /\ w_status = "raised" =>
              /\ Len(w_calls) = MAX_RETRIES + 1
              /\ w_result = w_calls[MAX_RETRIES + 1]

\* C2's case: the budget of 3 retries is exhausted by 4 retryable failures.
C2_Witness ==
    /\ w_cfg.max_retries = MAX_RETRIES
    /\ AllCallsRetryable
    /\ w_status = "raised"
    /\ Len(w_calls) = MAX_RETRIES + 1
    /\ w_retries = MAX_RETRIES + 1

\* C3 (as claimed), for the decorator of upload_fileobj and download_file
\* (max_retries=3, no error_codes): an invocation that fails with a remote
\* error whose code is not transient is the only invocation, and its error is
\* raised to the caller.
C3_PermanentNotRetried ==
    (w_cfg = [max_retries |-> MAX_RETRIES, error_codes |-> NoCodes]) =>
        \A n \in 1..Len(w_calls) :
            (w_calls[n].kind = "ClientError" /\ w_calls[n].code \in PermanentCodes)
                => /\ n = 1
                   /\ Len(w_calls) = 1
                   /\ w_status = "raised"
                   /\ w_result = w_calls[n]

(***************************************************************************)
(* Vocabulary of the claims about Spec and SpecConc.                       *)
(***************************************************************************)
\* the group ids an index document maps (none when "tender_id" is a list)
DocGroups(doc) ==
    IF doc.tender_id.shape = "dict" THEN DOMAIN doc.tender_id.items ELSE {}

\* the group ids the index stored in a file or object maps
FileGroups(file) == IF file.kind = "json" THEN DocGroups(file.doc) ELSE {}

\* instance i's last operation was op and has ended (returned or raised)
Ended(i, op) ==
    /\ args[i].op = op
    /\ result[i].kind # "none"
    /\ pc[i] \in {"idle", "new"}

\* the keys of the operation's upload_file calls, in call order
PutKeys(i) == [n \in 1..Len(puts[i]) |-> puts[i][n].key]

\* the last '/'-separated part of a path
Basename(path) == path[Len(path)]

\* groupId/<basename> for each of the operation's files, in order
TenderKeys(i) ==
    [n \in 1..Len(args[i].paths) |-> <<args[i].id, Basename(args[i].paths[n])>>]

\* groupId/documents/<basename> for each of the operation's files, in order
DocumentsKeys(i) ==
    [n \in 1..Len(args[i].paths) |->
        <<args[i].id, "documents", Basename(args[i].paths[n])>>]

\* no remote call has failed so far
NoFaultYet == fault_budget = MaxFaults

\* An index as get_bucket_info creates it.
FreshlyInitialised(file) ==
    file.kind = "json" /\ file.doc.tender_id = PyList

(***************************************************************************)
(* Claims checked under SpecConc.                                          *)
(***************************************************************************)
BothCreatedGroups ==
    /\ \A i \in Inst : Ended(i, "upload_new_tender")
    /\ args["A"].id # args["B"].id

\* C1 (as claimed): when two upload_new_tender calls for distinct ids, made
\* through two instances that had both loaded the same freshly initialised
\* index before either call started, have both ended, the stored index is
\* the complete document of one of the two writers: a JSON document that
\* maps the group of at least one of them.
C1_OneWriterSurvives ==
    ( /\ BothCreatedGroups
      /\ \A i \in Inst : pre_loaded[i]
      /\ \A i \in Inst : FreshlyInitialised(pre[i])
      /\ pre_info["A"] = pre_info["B"]
      /\ \A i \in Inst : pre_info[i] = pre[i].doc ) =>
        /\ stored.kind = "json"
        /\ \E i \in Inst : args[i].id \in FileGroups(stored)

\* The lost update itself, which the code shows on an index whose
\* "tender_id" is a dict: both calls returned, each inserted its own group
\* into the same base index, and the stored index maps only one of them.
C1_LostUpdateOnDict ==
    /\ BothCreatedGroups
    /\ \A i \in Inst : pre_loaded[i]
    /\ pre_info["A"] = pre_info["B"]
    /\ \A i \in Inst : result[i].kind = "return"
    /\ \A i \in Inst : args[i].id \notin FileGroups(pre[i])
    /\ \E i \in Inst : \E j \in Inst \ {i} :
          /\ args[i].id \in FileGroups(stored)
          /\ args[j].id \notin FileGroups(stored)

(***************************************************************************)
(* Claims checked under Spec.                                              *)
(***************************************************************************)
\* C4 (as claimed): an upload_file call that reported failure after a
\* transient failure of its remote call has invoked the remote call
\* 1 + 3 times.
C4_UploadRetried ==
    \A i \in Inst : \A n \in 1..Len(puts[i]) :
        (~puts[i][n].ok /\ puts[i][n].err \in TransientCodes)
            => puts[i][n].calls = MAX_RETRIES + 1

\* C5 (as claimed): update_metadata returns True only if its upload of
\* bucket_metadata.json succeeded.
C5_SaveReportsUpload ==
    \A i \in Inst :
        (um_result[i].returned /\ um_result[i].value) => um_result[i].uploaded

\* C6 (as claimed): after upload_new_tender has ended for a group id that
\* was absent from the index (the stored one and the cached one), in a run
\* without any remote failure, the stored index maps the id to a record with
\* the publication argument and documents = False.
C6_GroupInserted ==
    \A i \in Inst :
        ( /\ Ended(i, "upload_new_tender")
          /\ NoFaultYet
          /\ args[i].id \notin FileGroups(pre[i])
          /\ args[i].id \notin DocGroups(pre_info[i]) )
        => /\ args[i].id \in FileGroups(stored)
           /\ stored.doc.tender_id.items[args[i].id].publication = args[i].publication
           /\ stored.doc.tender_id.items[args[i].id].documents = FALSE

\* C7 (as claimed): add_to_tender for an id that is absent from the index
\* raises, has made no upload_file call, and leaves the stored index as it was.
C7_NoUploadsForUnknownGroup ==
    \A i \in Inst :
        (Ended(i, "add_to_tender") /\ args[i].id \notin DocGroups(pre_info[i]))
        => /\ result[i].kind = "raise"
           /\ puts[i] = <<>>
           /\ stored = pre[i]

\* C7 (amended): add_to_tender for an id that is absent from the cached
\* index first calls upload_file for every file, with key
\* id/documents/<basename>, in order, then raises KeyError (TypeError when
\* "tender_id" is a list); it makes no upload of bucket_metadata.json, and the
\* stored index and the cached index are as they were.
C7_UploadsThenRaises ==
    \A i \in Inst :
        (Ended(i, "add_to_tender") /\ args[i].id \notin DocGroups(pre_info[i]))
        => /\ result[i].kind = "raise"
           /\ result[i].exc = IF pre_info[i].tender_id.shape = "list"
                              THEN "TypeError" ELSE "KeyError"
           /\ PutKeys(i) = DocumentsKeys(i)
           /\ stored = pre[i]
           /\ bucket_info[i] = pre_info[i]
           /\ \A n \in 1..Len(puts[i]) : puts[i][n].ok => puts[i][n].key \in objects

\* C7's case: add_to_tender for an unknown id has uploaded two files under
\* id/documents/ and then raised KeyError.
C7_Witness ==
    \E i \in Inst :
        /\ Ended(i, "add_to_tender")
        /\ args[i].id \notin DocGroups(pre_info[i])
        /\ result[i] = Raised("KeyError")
        /\ Len(puts[i]) = 2
        /\ <<args[i].id, "documents", "a.pdf">> \in objects
        /\ <<args[i].id, "documents", "b.pdf">> \in objects

\* C8 (as claimed): after add_to_tender has returned for an id that was
\* present in the index, upload_file was called for every file with key
\* id/documents/<basename> and then for the index, the
\* stored index has documents = True for the id, the id's publication and
\* data are as before, and every other group's record is as before.
C8_DocumentsFlagStored ==
    \A i \in Inst :
        ( /\ Ended(i, "add_to_tender")
          /\ result[i].kind = "return"
          /\ args[i].id \in FileGroups(pre[i])
          /\ args[i].id \in DocGroups(pre_info[i]) )
        => /\ PutKeys(i) = DocumentsKeys(i) \o <<MetadataKey>>
           /\ FileGroups(stored) = FileGroups(pre[i])
           /\ \A g \in FileGroups(pre[i]) :
                 stored.doc.tender_id.items[g] =
                    IF g = args[i].id
                    THEN [pre[i].doc.tender_id.items[g] EXCEPT !.documents = TRUE]
                    ELSE pre[i].doc.tender_id.items[g]

\* C9 (as claimed): upload_new_tender that returns for an id that is already
\* in the index (the stored one and the cached one) has called upload_file
\* for every file, with key id/<basename>, and for nothing else (no save of
\* the index), and the stored index is as it was.
C9_ExistingGroupUntouched ==
    \A i \in Inst :
        ( /\ Ended(i, "upload_new_tender")
          /\ result[i].kind = "return"
          /\ args[i].id \in FileGroups(pre[i])
          /\ args[i].id \in DocGroups(pre_info[i]) )
        => /\ PutKeys(i) = TenderKeys(i)
           /\ stored = pre[i]

\* C10 (as claimed): get_bucket_info on a bucket without bucket_metadata.json
\* (here: in the constructor, in a run without any remote failure) returns an
\* index with the bucket's name and an empty mapping of groups, and that
\* index is what the bucket then stores.
C10_EmptyIndexIsMapping ==
    \A i \in Inst :
        ( /\ Ended(i, "init")
          /\ result[i].kind = "return"
          /\ NoFaultYet
          /\ pre[i].kind = "none" )
        => /\ bucket_info[i].bucket = BucketName
           /\ bucket_info[i].tender_id = PyDict(<<>>)
           /\ stored = json_dump(bucket_info[i])

(***************************************************************************)
(* The index object's existence, checked under Spec.                       *)
(***************************************************************************)
\* the positions inside get_bucket_info
GbiPositions ==
    {"gbi_exists", "gbi_open", "gbi_dump", "gbi_upload",
     "dl_exists", "dl_size", "dl_get", "gbi_load"}

\* instance i's first get_bucket_info call (the constructor's) has returned
LoadedOnce(i) ==
    /\ pc[i] # "new"
    /\ ~(args[i].op = "init" /\ pc[i] \in GbiPositions)

\* C11 (as claimed): once a get_bucket_info call has returned, the bucket
\* holds an object bucket_metadata.json, at every later moment: during and
\* after every later get_bucket_info, update_metadata, upload_new_tender and
\* add_to_tender.
C11_IndexExistsOnceLoaded ==
    (\E i \in Inst : LoadedOnce(i)) => stored.kind # "none"

(***************************************************************************)
(* SpecIndex: get_bucket_info and update_metadata called on the storage    *)
(* client itself. One caller makes calls through client A, then constructs *)
(* a new client B on the same bucket and working directory and calls       *)
(* get_bucket_info through it.                                             *)
(***************************************************************************)
\* a stored object whose bytes are not JSON
GarbageFile == [kind |-> "garbage", doc |-> NullDoc]

\* the value of .get("tender_id") on a JSON object without that key
NoGroups == [shape |-> "none", items |-> <<>>]

\* What the bucket may hold as bucket_metadata.json before the calls: the
\* documents of InitialStored, bytes that are not JSON, and JSON documents
\* whose "tender_id" is a list or is missing.
InitialStoredIndex ==
    InitialStored \cup
    { GarbageFile,
      json_dump(IndexDoc(0, PyList)),
      json_dump(IndexDoc(0, NoGroups)) }

\* the metadata arguments of update_metadata
IndexArgs ==
    { IndexDoc(0, PyDict(<<>>)),
      IndexDoc(0, PyDict(DictSet(<<>>, "t2", GroupRecord(FALSE, TRUE, [id |-> "t2", title |-> "y"])))) }

\* metadata = storage.get_bucket_info()
StartGetBucketInfo(i) ==
    /\ pc[i] = "idle"
    /\ quota[i] > 0
    /\ quota' = [quota EXCEPT ![i] = @ - 1]
    /\ Begin(i, [NoArgs EXCEPT !.op = "get_bucket_info"])
    /\ pc' = [pc EXCEPT ![i] = "gbi_exists"]
    /\ ret' = [ret EXCEPT ![i] = "gbi_done"]
    /\ UNCHANGED <<wvars, pvars, cvars, ovars, stored, objects, local_file, now, fault_budget, live, bucket_info,
                   metadata, retries, calls>>

\* get_bucket_info has returned metadata to the caller
GbiDone(i) ==
    /\ pc[i] = "gbi_done"
    /\ Finish(i, Returned)
    /\ UNCHANGED <<wvars, pvars, cvars, ovars, svars, ret, bucket_info, args, k, metadata, retries, calls,
                   puts, um_result, pre, pre_info, pre_loaded>>

\* storage.update_metadata(metadata): the argument is held in bucket_info,
\* where UmDump reads it
StartUpdateMetadata(i, index) ==
    /\ pc[i] = "idle"
    /\ quota[i] > 0
    /\ quota' = [quota EXCEPT ![i] = @ - 1]
    /\ Begin(i, [NoArgs EXCEPT !.op = "update_metadata"])
    /\ bucket_info' = [bucket_info EXCEPT ![i] = index]
    /\ pc' = [pc EXCEPT ![i] = "um_open"]
    /\ UNCHANGED <<wvars, pvars, cvars, ovars, stored, objects, local_file, now, fault_budget, live, ret,
                   metadata, retries, calls>>

InitIndex ==
    /\ InitStoreIdle
    /\ InitWrapperIdle
    /\ stored \in InitialStoredIndex
    /\ objects = {}
    /\ local_file = NoFile
    /\ now = 0
    /\ fault_budget = MaxFaults
    /\ live = Inst
    /\ quota = [i \in Inst |-> IF i = "A" THEN MaxOps ELSE 1]
    /\ pc = [i \in Inst |-> "idle"]
    /\ ret = [i \in Inst |-> "-"]
    /\ bucket_info = [i \in Inst |-> NullDoc]
    /\ args = [i \in Inst |-> NoArgs]
    /\ k = [i \in Inst |-> 1]
    /\ metadata = [i \in Inst |-> NullDoc]
    /\ retries = [i \in Inst |-> 0]
    /\ calls = [i \in Inst |-> 0]
    /\ puts = [i \in Inst |-> <<>>]
    /\ um_result = [i \in Inst |-> NoUm]
    /\ pre = [i \in Inst |-> NoFile]
    /\ pre_info = [i \in Inst |-> NullDoc]
    /\ pre_loaded = [i \in Inst |-> FALSE]
    /\ result = [i \in Inst |-> NoResult]

NextIndex ==
    \/ /\ args["B"].op = "none"
       /\ StartGetBucketInfo("A")
    \/ /\ args["B"].op = "none"
       /\ \E index \in IndexArgs : StartUpdateMetadata("A", index)
    \/ /\ pc["A"] = "idle"
       /\ StartGetBucketInfo("B")
    \/ \E i \in Inst :
          \/ GbiExists(i)
          \/ GbiOpen(i)
          \/ GbiDump(i)
          \/ GbiUpload(i)
          \/ DlExists(i)
          \/ DlSize(i)
          \/ DlGet(i)
          \/ GbiLoad(i)
          \/ GbiDone(i)
          \/ UmOpen(i)
          \/ UmDump(i)
          \/ UmUpload(i)

SpecIndex == InitIndex /\ [][NextIndex]_vars

(***************************************************************************)
(* Claims checked under SpecIndex.                                         *)
(***************************************************************************)
\* C12 (as claimed): when update_metadata(index) has returned True and the
\* next call is get_bucket_info on a newly constructed client, which returns,
\* the "tender_id" of the returned document equals the "tender_id" of index,
\* whatever was stored before.
C12_SaveThenLoad ==
    ( /\ Ended("A", "update_metadata")
      /\ um_result["A"].returned /\ um_result["A"].value
      /\ Ended("B", "get_bucket_info")
      /\ result["B"].kind = "return" )
    => metadata["B"].tender_id = bucket_info["A"].tender_id

\* C13 (as claimed): two successive get_bucket_info calls that both return,
\* with nothing done in between, return the same document (bucket,
\* updated_at and groups), whether the index existed before the first call
\* or not.
C13_LoadTwiceSame ==
    ( /\ Ended("A", "get_bucket_info")
      /\ result["A"].kind = "return"
      /\ Ended("B", "get_bucket_info")
      /\ result["B"].kind = "return" )
    => metadata["B"] = metadata["A"]

\* a stored index that is not JSON, or JSON whose groups are not a mapping
Corrupt(file) ==
    \/ file.kind = "garbage"
    \/ file.kind = "json" /\ file.doc.tender_id.shape # "dict"

\* C14 (as claimed): a get_bucket_info call that found a corrupt index
\* stored, in a run without any remote failure, ends by raising, and the
\* stored object is as it was.
C14_CorruptIndexSurfaced ==
    \A i \in Inst :
        (Ended(i, "get_bucket_info") /\ Corrupt(pre[i]) /\ NoFaultYet)
        => /\ result[i].kind = "raise"
           /\ stored = pre[i]

(***************************************************************************)
(* SpecStore: the object operations of S3DocumentStorage, called by one    *)
(* thread; SpecStoreConc: two threads, each making one put call.           *)
(***************************************************************************)
\* upload_fileobj's body, given what s3_client.upload_fileobj did
upload_fileobj(o) == IF o.kind = "return" THEN Ret(TRUE) ELSE Ret(FALSE)

\* download_fileobj, given what s3_client.download_fileobj did (a key that
\* is not there is a ClientError): True, or False for any exception
download_fileobj(o, present) ==
    IF o.kind = "return" /\ present THEN Ret(TRUE) ELSE Ret(FALSE)

\* delete_file, given what s3_client.delete_object did: True, False for a
\* ClientError; other exceptions propagate
delete_file(o) ==
    IF o.kind = "return" THEN Ret(TRUE)
    ELSE IF o.kind = "ClientError" THEN Ret(FALSE) ELSE o

\* A variant of put_object that keeps the object a key already has.
put_object_keep(b, s3_key, content) ==
    IF b[s3_key] = Absent THEN [b EXCEPT ![s3_key] = content] ELSE b

\* a successful s3_client.upload_file / upload_fileobj: the object at s3_key
\* is the uploaded content, whatever was there
put_object(b, s3_key, content) == [b EXCEPT ![s3_key] = content]

\* the calls that put or delete objects
Mutators == {"upload_file", "upload_fileobj", "upload_files", "delete_file"}

CallArgs(op, s3_key, file_path, file_paths, s3_prefix) ==
    [op |-> op, key |-> s3_key, path |-> file_path, paths |-> file_paths,
     prefix |-> s3_prefix]

\* the keys a call names
CallKeys(r) ==
    IF r.op = "upload_files"
    THEN {s3_key_of(r.prefix, r.paths[n]) : n \in 1..Len(r.paths)}
    ELSE {r.key}

\* file_path and s3_key of the running upload_file call: the caller's, or
\* those of upload_files' loop
CurPath(r) == IF r.op = "upload_files" THEN r.paths[r.i] ELSE r.path

\* A variant of CurKey that names the object after the file.
CurKey_basename(r) ==
    IF r.op = "upload_fileobj" THEN r.key
    ELSE <<basename(IF r.op = "upload_files" THEN r.paths[r.i] ELSE r.path)>>

CurKey(r) ==
    IF r.op = "upload_files" THEN s3_key_of(r.prefix, r.paths[r.i]) ELSE r.key

\* a call starts
StoreBegin(t, a, first) ==
    /\ th[t].pc = "idle"
    /\ th[t].quota > 0
    /\ LET r == [IdleThread(th[t].quota - 1) EXCEPT
                    !.pc = first, !.op = a.op, !.key = a.key, !.path = a.path,
                    !.paths = a.paths, !.prefix = a.prefix,
                    !.from = settled[a.key], !.pre = bucket, !.pre_disk = disk,
                    !.before = [op |-> th[t].op, key |-> th[t].key,
                                result |-> th[t].result,
                                had |-> th[t].pre[th[t].key]]]
       IN  /\ th' = [th EXCEPT ![t] = r]
           /\ settled' = IF a.op \in Mutators
                         THEN [key \in StoreKeys |->
                                  IF key \in CallKeys(r) THEN Unsettled
                                  ELSE settled[key]]
                         ELSE settled
    /\ UNCHANGED <<wvars, pvars, cvars, svars, ivars, bucket, disk>>

\* the call returns v
Return(r, v) == [r EXCEPT !.pc = "idle", !.result = [kind |-> "return", value |-> v]]

\* an exception leaves the call
Raise(r) == [r EXCEPT !.pc = "idle", !.result = [kind |-> "raise", value |-> FALSE]]

\* one more call of a client that list_files built for itself, which did o
NotedTemp(r, o) == [r EXCEPT !.calls = @ + 1, !.clean = @ /\ o.kind = "return"]

\* one more call of self.s3_client, which did o: the attribute is read when
\* the call is made
Noted(r, o) == [NotedTemp(r, o) EXCEPT !.clients = Append(@, self.s3_client)]

\* A variant of AfterUploadFile in which upload_files returns at the first
\* file that fails.
AfterUploadFile_abort(r, status) ==
    LET r1 == [r EXCEPT !.attempts = Append(@, [path |-> CurPath(r),
                                                key |-> CurKey(r),
                                                ok |-> status]),
                        !.retries = 0]
    IN  IF r.op = "upload_files"
        THEN LET r2 == [r1 EXCEPT !.results = DictSet(@, CurPath(r), status),
                                  !.i = @ + 1]
             IN  IF r.i < Len(r.paths) /\ status THEN [r2 EXCEPT !.pc = "uf_stat"]
                 ELSE Return(r2, TRUE)
        ELSE Return(r1, status)

\* upload_file has returned status: to the caller, or to upload_files, which
\* does upload_results[file_path] = upload_status and goes on with the loop
AfterUploadFile(r, status) ==
    LET r1 == [r EXCEPT !.attempts = Append(@, [path |-> CurPath(r),
                                                key |-> CurKey(r),
                                                ok |-> status]),
                        !.retries = 0]
    IN  IF r.op = "upload_files"
        THEN LET r2 == [r1 EXCEPT !.results = DictSet(@, CurPath(r), status),
                                  !.i = @ + 1]
             IN  IF r.i < Len(r.paths) THEN [r2 EXCEPT !.pc = "uf_stat"]
                 ELSE Return(r2, TRUE)
        ELSE Return(r1, status)

StartUploadFile(t, file_path, s3_key) ==
    StoreBegin(t, CallArgs("upload_file", s3_key, file_path, <<>>, ""), "uf_stat")

StartUploadFiles(t, file_paths, s3_prefix) ==
    StoreBegin(t, CallArgs("upload_files", KeyA, PathA, file_paths, s3_prefix), "uf_stat")

StartUploadFileobj(t, s3_key) ==
    StoreBegin(t, CallArgs("upload_fileobj", s3_key, PathA, <<>>, ""), "ufo_put")

StartDownloadFile(t, s3_key) ==
    StoreBegin(t, CallArgs("download_file", s3_key, Dest, <<>>, ""), "df_exists")

StartDownloadFileobj(t, s3_key) ==
    StoreBegin(t, CallArgs("download_fileobj", s3_key, PathA, <<>>, ""), "dfo_get")

StartFileExists(t, s3_key) ==
    StoreBegin(t, CallArgs("file_exists", s3_key, PathA, <<>>, ""), "fe_head")

StartDeleteFile(t, s3_key) ==
    StoreBegin(t, CallArgs("delete_file", s3_key, PathA, <<>>, ""), "del_call")

\* upload_file: file_size = os.path.getsize(file_path), which raises for a
\* path without a file (except Exception: return False)
UfStat(t) ==
    /\ th[t].pc = "uf_stat"
    /\ LET r == th[t]
       IN  IF disk[CurPath(r)] = Absent
           THEN th' = [th EXCEPT ![t] =
                          AfterUploadFile(r, upload_file(OtherException).value)]
           ELSE th' = [th EXCEPT ![t].pc = "uf_put"]
    /\ UNCHANGED <<wvars, pvars, cvars, svars, ivars, bucket, disk, settled>>

\* upload_file: self.s3_client.upload_file(file_path, bucket, s3_key, ...);
\* on success the object at s3_key is the file's content, whole
UfPut(t) ==
    /\ th[t].pc = "uf_put"
    /\ \E o \in RemoteOutcomes :
         LET r == Noted(th[t], o)
             key == CurKey(r)
             content == disk[CurPath(r)]
             res == upload_file(o)
             w == wrapper(res, r.retries, MAX_RETRIES, Codes(UPLOAD_FILE_ERROR_CODES))
         IN  /\ fault_budget' = CountFault(o)
             /\ bucket' = IF o.kind = "return" THEN put_object(bucket, key, content)
                          ELSE bucket
             /\ CASE w.act = "retry" ->
                       /\ th' = [th EXCEPT ![t] = [r EXCEPT !.retries = w.retries]]
                       /\ UNCHANGED settled
                  [] w.act = "raise" ->
                       /\ th' = [th EXCEPT ![t] = Raise(r)]
                       /\ UNCHANGED settled
                  [] OTHER ->
                       /\ th' = [th EXCEPT ![t] = AfterUploadFile(r, res.value)]
                       /\ settled' = IF r.op = "upload_file" /\ res.value
                                     THEN [settled EXCEPT ![key] = content]
                                     ELSE settled
    /\ UNCHANGED <<wvars, pvars, cvars, stored, objects, local_file, now, live, quota, ivars, disk>>

\* upload_fileobj: self.s3_client.upload_fileobj(file_obj, bucket, s3_key, ...)
UploadFileobj(t) ==
    /\ th[t].pc = "ufo_put"
    /\ \E o \in RemoteOutcomes :
         LET r == Noted(th[t], o)
             res == upload_fileobj(o)
             w == wrapper(res, r.retries, MAX_RETRIES, NoCodes)
         IN  /\ fault_budget' = CountFault(o)
             /\ bucket' = IF o.kind = "return"
                          THEN put_object(bucket, r.key, StreamContent)
                          ELSE bucket
             /\ CASE w.act = "retry" ->
                       /\ th' = [th EXCEPT ![t] = [r EXCEPT !.retries = w.retries]]
                       /\ UNCHANGED settled
                  [] w.act = "raise" ->
                       /\ th' = [th EXCEPT ![t] = Raise(r)]
                       /\ UNCHANGED settled
                  [] OTHER ->
                       /\ th' = [th EXCEPT ![t] =
                                    Return([r EXCEPT !.attempts =
                                              Append(@, [path |-> r.path, key |-> r.key,
                                                         ok |-> res.value])],
                                           res.value)]
                       /\ settled' = IF res.value
                                     THEN [settled EXCEPT ![r.key] = StreamContent]
                                     ELSE settled
    /\ UNCHANGED <<wvars, pvars, cvars, stored, objects, local_file, now, live, quota, ivars, disk>>

\* download_file: os.makedirs of the parent directory, then
\* if not self.file_exists(s3_key): return False (an exception of
\* file_exists is caught by download_file's except Exception: return False)
DownloadExists(t) ==
    /\ th[t].pc = "df_exists"
    /\ \E o \in RemoteOutcomes :
         LET r == Noted(th[t], o)
             e == file_exists(o, bucket[r.key] # Absent)
         IN  /\ fault_budget' = CountFault(o)
             /\ th' = [th EXCEPT ![t] =
                          IF e.kind = "return" /\ e.value
                          THEN [r EXCEPT !.pc = "df_size"]
                          ELSE Return(r, FALSE)]
    /\ UNCHANGED <<wvars, pvars, cvars, stored, objects, local_file, now, live, quota, ivars,
                   bucket, disk, settled>>

\* A variant of DownloadSize that gives up (return False) when head_object
\* fails.
DownloadSize_strict(t) ==
    /\ th[t].pc = "df_size"
    /\ \E o \in RemoteOutcomes :
         LET r == Noted(th[t], o)
             ok == o.kind = "return" /\ bucket[r.key] # Absent
         IN  /\ fault_budget' = CountFault(o)
             /\ th' = [th EXCEPT ![t] =
                          IF ok
                          THEN [r EXCEPT !.pc = "df_get", !.probe = "ok", !.plan = "sized"]
                          ELSE Return([r EXCEPT !.probe = "failed"], FALSE)]
    /\ UNCHANGED <<wvars, pvars, cvars, stored, objects, local_file, now, live, quota, ivars,
                   bucket, disk, settled>>

\* download_file: head_object for ContentLength and
\* _get_multipart_config(file_size); on any exception a warning and
\* _get_multipart_config()
DownloadSize(t) ==
    /\ th[t].pc = "df_size"
    /\ \E o \in RemoteOutcomes :
         LET r == Noted(th[t], o)
             ok == o.kind = "return" /\ bucket[r.key] # Absent
         IN  /\ fault_budget' = CountFault(o)
             /\ th' = [th EXCEPT ![t] =
                          [r EXCEPT !.pc = "df_get",
                                    !.probe = IF ok THEN "ok" ELSE "failed",
                                    !.plan = IF ok THEN "sized" ELSE "default"]]
    /\ UNCHANGED <<wvars, pvars, cvars, stored, objects, local_file, now, live, quota, ivars,
                   bucket, disk, settled>>

\* download_file: self.s3_client.download_file(bucket, s3_key, local_path):
\* the transfer writes a temporary file and renames it to local_path when it
\* is complete, so a failed transfer leaves local_path as it was
DownloadGet(t) ==
    /\ th[t].pc = "df_get"
    /\ \E o \in RemoteOutcomes :
         LET r == [Noted(th[t], o) EXCEPT !.transfers = @ + 1]
             d == download_file(o, bucket[r.key] # Absent)
             w == wrapper(d, r.retries, MAX_RETRIES, NoCodes)
         IN  /\ fault_budget' = CountFault(o)
             /\ disk' = IF d.value THEN [disk EXCEPT ![r.path] = bucket[r.key]]
                        ELSE disk
             /\ th' = [th EXCEPT ![t] =
                          CASE w.act = "retry" ->
                                 [r EXCEPT !.pc = "df_exists", !.retries = w.retries]
                            [] w.act = "raise" -> Raise(r)
                            [] OTHER -> Return(r, d.value)]
    /\ UNCHANGED <<wvars, pvars, cvars, stored, objects, local_file, now, live, quota, ivars,
                   bucket, settled>>

\* download_fileobj: self.s3_client.download_fileobj(bucket, s3_key, file_obj)
DownloadFileobj(t) ==
    /\ th[t].pc = "dfo_get"
    /\ \E o \in RemoteOutcomes :
         LET r == Noted(th[t], o)
             d == download_fileobj(o, bucket[r.key] # Absent)
         IN  /\ fault_budget' = CountFault(o)
             /\ th' = [th EXCEPT ![t] =
                          Return([r EXCEPT !.buf = IF d.value THEN bucket[r.key] ELSE @],
                                 d.value)]
    /\ UNCHANGED <<wvars, pvars, cvars, stored, objects, local_file, now, live, quota, ivars,
                   bucket, disk, settled>>

\* file_exists: self.s3_client.head_object(Bucket, Key)
FileExists(t) ==
    /\ th[t].pc = "fe_head"
    /\ \E o \in RemoteOutcomes :
         LET r == Noted(th[t], o)
             e == file_exists(o, bucket[r.key] # Absent)
         IN  /\ fault_budget' = CountFault(o)
             /\ th' = [th EXCEPT ![t] =
                          IF e.kind = "return" THEN Return(r, e.value) ELSE Raise(r)]
    /\ UNCHANGED <<wvars, pvars, cvars, stored, objects, local_file, now, live, quota, ivars,
                   bucket, disk, settled>>

\* A variant of DeleteFile that reports False for a key without an object.
DeleteFile_checked(t) ==
    /\ th[t].pc = "del_call"
    /\ \E o \in RemoteOutcomes :
         LET r == Noted(th[t], o)
             d == delete_file(o)
         IN  /\ fault_budget' = CountFault(o)
             /\ bucket' = IF o.kind = "return" THEN [bucket EXCEPT ![r.key] = Absent]
                          ELSE bucket
             /\ th' = [th EXCEPT ![t] =
                          IF d.kind = "return"
                          THEN Return(r, d.value /\ bucket[r.key] # Absent)
                          ELSE Raise(r)]
    /\ UNCHANGED <<wvars, pvars, cvars, stored, objects, local_file, now, live, quota, ivars,
                   disk, settled>>

\* delete_file: self.s3_client.delete_object(Bucket, Key), which succeeds
\* whether or not there is an object at the key
DeleteFile(t) ==
    /\ th[t].pc = "del_call"
    /\ \E o \in RemoteOutcomes :
         LET r == Noted(th[t], o)
             d == delete_file(o)
         IN  /\ fault_budget' = CountFault(o)
             /\ bucket' = IF o.kind = "return" THEN [bucket EXCEPT ![r.key] = Absent]
                          ELSE bucket
             /\ th' = [th EXCEPT ![t] =
                          IF d.kind = "return" THEN Return(r, d.value) ELSE Raise(r)]
    /\ UNCHANGED <<wvars, pvars, cvars, stored, objects, local_file, now, live, quota, ivars,
                   disk, settled>>

\* everything but the storage client's objects and callers is idle
InitIndexIdle ==
    /\ InitWrapperIdle
    /\ stored = NoFile
    /\ objects = {}
    /\ local_file = NoFile
    /\ now = 1
    /\ fault_budget = MaxFaults
    /\ live = {}
    /\ quota = [i \in Inst |-> 0]
    /\ InitInstances

\* one thread, P, makes up to MaxOps calls, one after the other
InitStore ==
    /\ InitIndexIdle
    /\ InitPlanIdle
    /\ InitClientBuilt
    /\ bucket \in InitialBuckets
    /\ disk = InitialDisk
    /\ settled = [key \in StoreKeys |-> Unsettled]
    /\ th = [t \in Thr |-> IF t = "P" THEN IdleThread(MaxOps) ELSE IdleThread(0)]

\* two threads, each makes one put call
InitStoreConc ==
    /\ InitIndexIdle
    /\ InitPlanIdle
    /\ InitClientBuilt
    /\ bucket \in InitialBuckets
    /\ disk = InitialDisk
    /\ settled = [key \in StoreKeys |-> Unsettled]
    /\ th = [t \in Thr |-> IdleThread(1)]

NextStore ==
    \E t \in Thr :
        \/ \E file_path \in SourcePaths : \E s3_key \in {KeyA, KeyB} :
              StartUploadFile(t, file_path, s3_key)
        \/ \E file_paths \in FileLists : \E s3_prefix \in Prefixes :
              StartUploadFiles(t, file_paths, s3_prefix)
        \/ \E s3_key \in {KeyA, KeyB} : StartUploadFileobj(t, s3_key)
        \/ \E s3_key \in {KeyA, KeyB} : StartDownloadFile(t, s3_key)
        \/ \E s3_key \in {KeyA, KeyB} : StartDownloadFileobj(t, s3_key)
        \/ \E s3_key \in {KeyA, KeyB} : StartFileExists(t, s3_key)
        \/ \E s3_key \in {KeyA, KeyB} : StartDeleteFile(t, s3_key)
        \/ UfStat(t)
        \/ UfPut(t)
        \/ UploadFileobj(t)
        \/ DownloadExists(t)
        \/ DownloadSize(t)
        \/ DownloadGet(t)
        \/ DownloadFileobj(t)
        \/ FileExists(t)
        \/ DeleteFile(t)

NextStoreConc ==
    \E t \in Thr :
        \/ \E file_path \in SourcePaths : \E s3_key \in {KeyA, KeyB} :
              StartUploadFile(t, file_path, s3_key)
        \/ \E s3_key \in {KeyA, KeyB} : StartUploadFileobj(t, s3_key)
        \/ UfStat(t)
        \/ UfPut(t)
        \/ UploadFileobj(t)

SpecStore == InitStore /\ [][NextStore]_vars

SpecStoreConc == InitStoreConc /\ [][NextStoreConc]_vars

(***************************************************************************)
(* Claims checked under SpecStore.                                         *)
(***************************************************************************)
\* thread t's last call was op and has ended
CallEnded(t, op) ==
    /\ th[t].op = op
    /\ th[t].pc = "idle"
    /\ th[t].result.kind # "none"

True == [kind |-> "return", value |-> TRUE]

False == [kind |-> "return", value |-> FALSE]

\* C15: a file_exists, download_file or download_fileobj call on a key whose
\* last put returned True, with no put or delete on the key started since,
\* and whose own remote calls did not fail, returns True, and what
\* download_file wrote to local_path, or download_fileobj to file_obj, is
\* exactly the content of that last put (also when the put replaced an
\* earlier object).
C15_ReadsSeeLastPut ==
    \A t \in Thr :
        LET r == th[t] IN
        ( /\ \E op \in {"file_exists", "download_file", "download_fileobj"} :
                CallEnded(t, op)
          /\ r.from # Unsettled
          /\ r.clean )
        => /\ r.result = True
           /\ r.op = "download_file" => disk[r.path] = r.from
           /\ r.op = "download_fileobj" => r.buf = r.from

\* C15's case: upload_file put "a" at a key that held "old" and returned
\* True, and the download_file that followed wrote "a" to local_path.
C15_Witness ==
    \E t \in Thr :
        /\ CallEnded(t, "download_file")
        /\ th[t].before.op = "upload_file"
        /\ th[t].before.key = th[t].key
        /\ th[t].before.result = True
        /\ th[t].before.had = "old"
        /\ th[t].from = "a"
        /\ th[t].result = True
        /\ disk[Dest] = "a"

\* the key upload_files is to use for a source: prefix/<basename>, or
\* <basename> without a prefix
BatchKey(prefix, path) ==
    IF prefix = "" THEN <<Basename(path)>> ELSE <<prefix, Basename(path)>>

\* the positions of path in the list paths
Positions(paths, path) == {n \in 1..Len(paths) : paths[n] = path}

\* the last position of path in paths
LastPosition(paths, path) ==
    CHOOSE n \in Positions(paths, path) : \A m \in Positions(paths, path) : m <= n

\* C17: when upload_files has ended it has returned; upload_file was
\* attempted once for every element of file_paths, in order, whatever the
\* earlier attempts gave; the result mapping has exactly the source paths as
\* keys; the entry of a path is what the (last) attempt for that path
\* returned; an entry of True means the object prefix/<basename> holds the
\* file's content, and an entry of False for a path given once means the
\* object is as it was.
C17_BatchAttemptsAll ==
    \A t \in Thr :
        LET r == th[t] IN
        CallEnded(t, "upload_files") =>
            /\ r.result.kind = "return"
            /\ [n \in 1..Len(r.attempts) |-> r.attempts[n].path] = r.paths
            /\ DOMAIN r.results = {r.paths[n] : n \in 1..Len(r.paths)}
            /\ \A path \in DOMAIN r.results :
                  /\ r.results[path] = r.attempts[LastPosition(r.paths, path)].ok
                  /\ r.results[path] =>
                        /\ disk[path] # Absent
                        /\ bucket[BatchKey(r.prefix, path)] = disk[path]
                  /\ (~r.results[path] /\ Cardinality(Positions(r.paths, path)) = 1) =>
                        bucket[BatchKey(r.prefix, path)] = r.pre[BatchKey(r.prefix, path)]

\* C17's case: of three sources the second one (no such file) failed, and
\* the first and the third were uploaded.
C17_Witness ==
    \E t \in Thr :
        /\ CallEnded(t, "upload_files")
        /\ th[t].paths = <<PathA, PathMissing, PathB>>
        /\ th[t].results[PathA]
        /\ ~th[t].results[PathMissing]
        /\ th[t].results[PathB]
        /\ bucket[BatchKey(th[t].prefix, PathB)] = "b"

\* C18: a delete_file call changes no other key; when its remote call does
\* not fail it returns True, whether or not the key had an object; when it
\* returns True the key has no object; and a file_exists call on the key
\* that follows a delete_file call that returned True returns False.
C18_DeleteIdempotent ==
    \A t \in Thr :
        LET r == th[t] IN
        /\ CallEnded(t, "delete_file") =>
              /\ \A key \in StoreKeys \ {r.key} : bucket[key] = r.pre[key]
              /\ r.clean => r.result = True
              /\ r.result = True => bucket[r.key] = Absent
        /\ ( /\ CallEnded(t, "file_exists")
             /\ r.before.op = "delete_file"
             /\ r.before.key = r.key
             /\ r.before.result = True )
           => (r.result.kind = "return" => r.result = False)

\* C18's case: delete_file on a key without an object returned True, and the
\* file_exists call that followed returned False.
C18_Witness ==
    \E t \in Thr :
        /\ CallEnded(t, "file_exists")
        /\ th[t].before.op = "delete_file"
        /\ th[t].before.key = th[t].key
        /\ th[t].before.had = Absent
        /\ th[t].before.result = True
        /\ th[t].result = False

\* C19 (as claimed): file_exists never raises: it returns True when
\* head_object succeeds on a key that has an object, and False otherwise.
C19_ExistsNeverRaises ==
    \A t \in Thr :
        LET r == th[t] IN
        CallEnded(t, "file_exists") =>
            /\ r.result.kind = "return"
            /\ r.result.value = (r.clean /\ r.pre[r.key] # Absent)

\* C20: a download_file call for a key without an object returns False,
\* has not called s3_client.download_file, and leaves local_path as it was
\* (no file, if there was none); a download_file call for a key with an
\* object whose head_object for the size failed has called
\* s3_client.download_file, once, with the default transfer configuration.
C20_DownloadMissingOrUnsized ==
    \A t \in Thr :
        LET r == th[t] IN
        CallEnded(t, "download_file") =>
            /\ r.pre[r.key] = Absent =>
                  /\ r.result = False
                  /\ r.transfers = 0
                  /\ disk[r.path] = r.pre_disk[r.path]
            /\ (r.pre[r.key] # Absent /\ r.probe = "failed") =>
                  /\ r.transfers = 1
                  /\ r.plan = "default"

\* C20's second case: the size probe failed, the transfer was made with the
\* default configuration, and download_file returned True with the object's
\* content at local_path.
C20_Witness ==
    \E t \in Thr :
        /\ CallEnded(t, "download_file")
        /\ th[t].pre[th[t].key] = "old"
        /\ th[t].probe = "failed"
        /\ th[t].plan = "default"
        /\ th[t].transfers = 1
        /\ th[t].result = True
        /\ disk[Dest] = "old"

\* C20's first case: download_file for a key without an object returned
\* False, without a transfer, and there is no file at local_path.
C20_WitnessMissing ==
    \E t \in Thr :
        /\ CallEnded(t, "download_file")
        /\ th[t].pre[th[t].key] = Absent
        /\ th[t].result = False
        /\ th[t].transfers = 0
        /\ disk[Dest] = Absent

(***************************************************************************)
(* Claims checked under SpecStoreConc.                                     *)
(***************************************************************************)
\* both threads' put calls have ended
BothPut ==
    \A t \in Thr : CallEnded(t, "upload_file") \/ CallEnded(t, "upload_fileobj")

\* the content thread t's call was given to put
PutContent(t) ==
    IF th[t].op = "upload_fileobj" THEN "s"
    ELSE IF th[t].path = PathA THEN "a"
    ELSE IF th[t].path = PathB THEN "b" ELSE Absent

\* what the bucket held at key before the two calls: a thread that started
\* while the bucket was as at the start has it in pre
Originally(key) ==
    LET t == CHOOSE u \in Thr : th[u].pre \in InitialBuckets IN th[t].pre[key]

\* C16: when two put calls (upload_file or upload_fileobj) made by two
\* threads have ended, in whatever interleaving: on distinct keys, each key
\* holds exactly the content of the call made on it if that call returned
\* True, and what it held before otherwise; on the same key, the object is
\* the whole content of one call that returned True (what was there before
\* if none did), and it is the second call's when the second call started
\* after the first one's content was stored; every other key is untouched.
C16_ConcurrentPuts ==
    BothPut =>
        LET kP == th["P"].key
            kQ == th["Q"].key
            Ok(t) == th[t].result = True
        IN  /\ kP # kQ =>
                 \A t \in Thr :
                    bucket[th[t].key] = IF Ok(t) THEN PutContent(t)
                                        ELSE Originally(th[t].key)
            /\ kP = kQ =>
                 /\ bucket[kP] \in
                       IF \E t \in Thr : Ok(t)
                       THEN {PutContent(t) : t \in {u \in Thr : Ok(u)}}
                       ELSE {Originally(kP)}
                 /\ \A t \in Thr : \A u \in Thr \ {t} :
                       ( /\ Ok(t) /\ Ok(u)
                         /\ PutContent(t) # PutContent(u)
                         /\ th[u].pre[kP] = PutContent(t) )
                       => bucket[kP] = PutContent(u)
            /\ \A key \in StoreKeys \ {kP, kQ} : bucket[key] = Originally(key)

\* C16's case: two calls that both returned True put different contents at
\* the same key, which held an object before, while both were running (each
\* started before the other's content was stored).
C16_Witness ==
    /\ BothPut
    /\ th["P"].key = th["Q"].key
    /\ \A t \in Thr : th[t].result = True
    /\ PutContent("P") # PutContent("Q")
    /\ \A t \in Thr : th[t].pre[th[t].key] = "old"
    /\ bucket[th["P"].key] = PutContent("P")

(***************************************************************************)
(* Claims about the delays and the allow-list of the retry wrapper         *)
(* (SpecRetry).                                                            *)
(***************************************************************************)
\* C26: the delay slept before the i-th retry is backoff_factor * 2^(i-1)
\* (w_slept counts in units of backoff_factor), so each delay is twice the
\* previous one; one delay is slept between two consecutive invocations and
\* none after the invocation that ends the call (the failure that exhausts
\* the budget included).
C26_BackoffDelays ==
    /\ \A n \in 1..Len(w_slept) : w_slept[n] = 2 ^ (n - 1)
    /\ \A n \in 1..(Len(w_slept) - 1) : w_slept[n + 1] = 2 * w_slept[n]
    /\ w_status = "running" => Len(w_slept) = Len(w_calls)
    /\ w_status # "running" => Len(w_slept) = Len(w_calls) - 1
    /\ Len(w_slept) <= w_cfg.max_retries

\* C26's case: three retries were slept for (1, 2 and 4 units) and the
\* fourth failure exhausted the budget without a further delay.
C26_Witness ==
    /\ w_status = "raised"
    /\ w_result.kind = "ClientError"
    /\ Len(w_calls) = 4
    /\ w_slept = <<1, 2, 4>>

\* C30 (a): with an explicitly given allow-list, a remote error whose code
\* is not in the list is the only invocation: no delay is slept and that
\* error is raised.
C30_OutsideAllowListNotRetried ==
    w_cfg.error_codes.given =>
        \A n \in 1..Len(w_calls) :
            (w_calls[n].kind = "ClientError"
                 /\ w_calls[n].code \notin w_cfg.error_codes.codes)
                => /\ Len(w_calls) = 1
                   /\ w_slept = <<>>
                   /\ w_status = "raised"
                   /\ w_result = w_calls[n]

\* C30 (b), which the wrapper keeps: a failure that is no ClientError is
\* the last invocation, nothing is slept after it and it is raised.
C30_OtherExceptionNotRetried ==
    \A n \in 1..Len(w_calls) :
        w_calls[n].kind \notin {"return", "ClientError"}
            => /\ n = Len(w_calls)
               /\ Len(w_slept) = n - 1
               /\ w_status = "raised"
               /\ w_result = w_calls[n]

(***************************************************************************)
(* SpecPlan: _get_multipart_config, the transfer configuration handed to   *)
(* boto3's TransferConfig.                                                 *)
(***************************************************************************)
\* 1024 * 1024 bytes
MiB == 1024 * 1024

MULTIPART_THRESHOLD == 100 * 1024 * 1024

MULTIPART_CHUNKSIZE == 10 * 1024 * 1024

MAX_CONCURRENCY == 10

\* math.ceil(a / b) for a >= 0 and b > 0.  Python divides in floating
\* point; the quotients taken here (a file size by 10, at most 100 MiB by
\* 2^20) are exact or off by far less than their distance to the next
\* integer for every size below 2^53, so the ceiling is the integer one.
ceil(a, b) == (a + b - 1) \div b

min(a, b) == IF a <= b THEN a ELSE b

max(a, b) == IF a >= b THEN a ELSE b

\* "file_size and ...": None and 0 are false
SizeTruthy(size) == size.known /\ size.bytes # 0

\* A variant of _get_multipart_config that hands MULTIPART_CHUNKSIZE to
\* the SDK as the threshold.
get_multipart_config_low(size) ==
    LET config == [multipart_threshold |-> MULTIPART_CHUNKSIZE,
                   multipart_chunksize |-> MULTIPART_CHUNKSIZE,
                   max_concurrency |-> MAX_CONCURRENCY,
                   use_threads |-> TRUE]
    IN  IF SizeTruthy(size) /\ size.bytes > MULTIPART_THRESHOLD
        THEN LET optimal_parts == 10
                 calculated_chunk_size == ceil(size.bytes, optimal_parts)
                 chunk_size == max(min(calculated_chunk_size, 100 * 1024 * 1024),
                                   MULTIPART_CHUNKSIZE)
             IN  [config EXCEPT
                    !.multipart_chunksize = ceil(chunk_size, 1024 * 1024) * 1024 * 1024]
        ELSE config

\* A variant of _get_multipart_config without the rounding to 1 MiB.
get_multipart_config_unrounded(size) ==
    LET config == [multipart_threshold |-> MULTIPART_THRESHOLD,
                   multipart_chunksize |-> MULTIPART_CHUNKSIZE,
                   max_concurrency |-> MAX_CONCURRENCY,
                   use_threads |-> TRUE]
    IN  IF SizeTruthy(size) /\ size.bytes > MULTIPART_THRESHOLD
        THEN LET optimal_parts == 10
                 calculated_chunk_size == ceil(size.bytes, optimal_parts)
                 chunk_size == max(min(calculated_chunk_size, 100 * 1024 * 1024),
                                   MULTIPART_CHUNKSIZE)
             IN  [config EXCEPT !.multipart_chunksize = chunk_size]
        ELSE config

\* A variant of _get_multipart_config that divides with // instead of
\* math.ceil(... / ...).
get_multipart_config_floor(size) ==
    LET config == [multipart_threshold |-> MULTIPART_THRESHOLD,
                   multipart_chunksize |-> MULTIPART_CHUNKSIZE,
                   max_concurrency |-> MAX_CONCURRENCY,
                   use_threads |-> TRUE]
    IN  IF SizeTruthy(size) /\ size.bytes > MULTIPART_THRESHOLD
        THEN LET optimal_parts == 10
                 calculated_chunk_size == size.bytes \div optimal_parts
                 chunk_size == max(min(calculated_chunk_size, 100 * 1024 * 1024),
                                   MULTIPART_CHUNKSIZE)
             IN  [config EXCEPT
                    !.multipart_chunksize = ceil(chunk_size, 1024 * 1024) * 1024 * 1024]
        ELSE config

\* _get_multipart_config(file_size)
get_multipart_config(size) ==
    LET config == [multipart_threshold |-> MULTIPART_THRESHOLD,
                   multipart_chunksize |-> MULTIPART_CHUNKSIZE,
                   max_concurrency |-> MAX_CONCURRENCY,
                   use_threads |-> TRUE]
    IN  IF SizeTruthy(size) /\ size.bytes > MULTIPART_THRESHOLD
        THEN LET optimal_parts == 10
                 calculated_chunk_size == ceil(size.bytes, optimal_parts)
                 chunk_size == max(min(calculated_chunk_size, 100 * 1024 * 1024),
                                   MULTIPART_CHUNKSIZE)
             IN  [config EXCEPT
                    !.multipart_chunksize = ceil(chunk_size, 1024 * 1024) * 1024 * 1024]
        ELSE config

\* The sizes planned for: unknown, and every multiple of 1 MiB up to
\* MaxSizeMiB together with its two neighbours.
SizeInputs ==
    {UnknownSize} \cup
    {SizeOf(n) : n \in {m * MiB + d : m \in 0..MaxSizeMiB, d \in {-1, 0, 1}}
                        \ {-1}}

InitPlan ==
    /\ InitIndexIdle
    /\ InitClientBuilt
    /\ bucket = [key \in StoreKeys |-> Absent]
    /\ disk = InitialDisk
    /\ settled = [key \in StoreKeys |-> Unsettled]
    /\ th = [t \in Thr |-> IdleThread(0)]
    /\ file_size \in SizeInputs
    /\ transfer_config = NoConfig

\* transfer_config = self._get_multipart_config(file_size)
GetMultipartConfig ==
    /\ transfer_config = NoConfig
    /\ transfer_config' = get_multipart_config(file_size)
    /\ UNCHANGED <<wvars, svars, ivars, ovars, cvars, file_size>>

NextPlan == GetMultipartConfig

SpecPlan == InitPlan /\ [][NextPlan]_vars

(***************************************************************************)
(* Claims about the transfer configuration (SpecPlan).                     *)
(***************************************************************************)
\* _get_multipart_config has returned
Planned == transfer_config # NoConfig

\* the size is known and above the threshold the configuration names
AboveThreshold ==
    file_size.known /\ file_size.bytes > transfer_config.multipart_threshold

C24_ChunkSizeRange ==
    Planned =>
        LET c == transfer_config.multipart_chunksize
            s == file_size.bytes
        IN  /\ c % MiB = 0
            /\ 10 * MiB <= c
            /\ c <= 100 * MiB
            /\ transfer_config.max_concurrency <= 10
            /\ (file_size.known /\ s > 1000 * MiB) => c = 100 * MiB
            /\ (file_size.known /\ s > 100 * MiB /\ s <= 1000 * MiB) =>
                   /\ 10 * c >= s
                   /\ 10 * (c - MiB) < s

\* C24's case: one byte more than 100 MiB makes ceil(s / 10) one byte more
\* than 10 MiB, which is rounded up to 11 MiB.
C24_Witness ==
    /\ Planned
    /\ file_size = SizeOf(100 * MiB + 1)
    /\ transfer_config.multipart_chunksize = 11 * MiB

\* C25: every size above 100 MiB and up to 1000 MiB is cut into exactly 10
\* parts of the chunk size (the tenth part starts inside the file, an
\* eleventh would not); 250 MiB gets 25 MiB chunks; above 1000 MiB the chunk
\* size is 100 MiB and there are more than 10 parts.
C25_TenParts ==
    Planned =>
        LET c == transfer_config.multipart_chunksize
            s == file_size.bytes
        IN  /\ (file_size.known /\ s > 100 * MiB /\ s <= 1000 * MiB) =>
                   /\ 9 * c < s
                   /\ s <= 10 * c
            /\ file_size = SizeOf(250 * MiB) => c = 25 * MiB
            /\ (file_size.known /\ s > 1000 * MiB) =>
                   /\ c = 100 * MiB
                   /\ s > 10 * c

\* C25's case: the 250 MiB file of the scenario.
C25_Witness ==
    /\ Planned
    /\ file_size = SizeOf(250 * MiB)
    /\ transfer_config.multipart_chunksize = 25 * MiB

(***************************************************************************)
(* SpecList: list_files (document_storage.py).                             *)
(***************************************************************************)
\* the prefix arguments: "", "p", "p/", "a.pdf", "p/a.pdf"
ListPrefixes ==
    {EmptyPrefix, PrefixOf(<<"p">>, FALSE), PrefixOf(<<"p">>, TRUE),
     PrefixOf(KeyA, FALSE), PrefixOf(<<"p", "a.pdf">>, FALSE)}

\* "prefix and not prefix.endswith('/')"
NamesOneFile(prefix) == prefix.parts # <<>> /\ ~prefix.slash

\* The keys of the model in the order in which list_objects_v2 reports
\* keys (by their bytes).
SortedKeys ==
    << <<"a.pdf">>, <<"b.pdf">>, <<"none.pdf">>,
       <<"p", "a.pdf">>, <<"p", "b.pdf">>, <<"p", "none.pdf">> >>

\* Whether the key begins with the prefix.  No name of the model begins
\* with another one, so a prefix that does not end with "/" matches the
\* keys whose first components are the prefix's.
starts_with(key, prefix) ==
    LET n == Len(prefix.parts)
    IN  /\ Len(key) >= n
        /\ SubSeq(key, 1, n) = prefix.parts
        /\ prefix.slash => Len(key) > n

\* response["Contents"] of list_objects_v2(Bucket, Prefix=prefix), as keys
list_objects_v2(b, prefix) ==
    SelectSeq(SortedKeys,
              LAMBDA key : b[key] # Absent /\ starts_with(key, prefix))

\* whether head_object finds an object at the key the prefix spells
HeadFinds(b, prefix) ==
    prefix.parts \in StoreKeys /\ b[prefix.parts] # Absent

\* list_files returns the list
ReturnList(r, keys) ==
    [Return(r, TRUE) EXCEPT !.listing = keys]

StartListFiles(t, prefix) ==
    /\ th[t].pc = "idle"
    /\ th[t].quota > 0
    /\ th' = [th EXCEPT ![t] =
                 [IdleThread(th[t].quota - 1) EXCEPT
                     !.pc = "lf_list", !.op = "list_files",
                     !.list_prefix = prefix, !.pre = bucket, !.pre_disk = disk,
                     !.before = [op |-> th[t].op, key |-> th[t].key,
                                 result |-> th[t].result,
                                 had |-> th[t].pre[th[t].key]]]]
    /\ UNCHANGED <<wvars, pvars, cvars, svars, ivars, bucket, disk, settled>>

\* A variant of ListObjects that builds the client of the listing into
\* self.s3_client.
ListObjects_rebuild(t) ==
    /\ th[t].pc = "lf_list"
    /\ \E o \in RemoteOutcomes :
         LET r == [Noted(th[t], o) EXCEPT
                      !.probe = IF o.kind = "return" THEN "ok" ELSE "failed"]
         IN  /\ fault_budget' = CountFault(o)
             /\ th' = [th EXCEPT ![t] =
                          IF o.kind = "return"
                          THEN ReturnList(r, list_objects_v2(bucket, r.list_prefix))
                          ELSE IF NamesOneFile(r.list_prefix)
                          THEN [r EXCEPT !.pc = "lf_exists"]
                          ELSE ReturnList(r, <<>>)]
    /\ self' = [self EXCEPT !.s3_client = @ + 1]
    /\ UNCHANGED <<wvars, pvars, environ, bucket_name_arg, c_pc, caller_log,
                   stored, objects, local_file, now, live, quota, ivars,
                   bucket, disk, settled>>

\* The try block: a client of its own is built and list_objects_v2 is
\* called once; any exception leads to the except block.
ListObjects(t) ==
    /\ th[t].pc = "lf_list"
    /\ \E o \in RemoteOutcomes :
         LET r == [NotedTemp(th[t], o) EXCEPT
                      !.temp_clients = @ + 1,
                      !.probe = IF o.kind = "return" THEN "ok" ELSE "failed"]
         IN  /\ fault_budget' = CountFault(o)
             /\ th' = [th EXCEPT ![t] =
                          IF o.kind = "return"
                          THEN ReturnList(r, list_objects_v2(bucket, r.list_prefix))
                          ELSE IF NamesOneFile(r.list_prefix)
                          THEN [r EXCEPT !.pc = "lf_exists"]
                          ELSE ReturnList(r, <<>>)]
    /\ UNCHANGED <<wvars, pvars, cvars, stored, objects, local_file, now, live,
                   quota, ivars, bucket, disk, settled>>

\* The except block's "self.file_exists(prefix)": [prefix] when it returns
\* True, [] when it returns False; what it raises leaves list_files.
ListFallback(t) ==
    /\ th[t].pc = "lf_exists"
    /\ \E o \in RemoteOutcomes :
         LET r == Noted(th[t], o)
             e == file_exists(o, HeadFinds(bucket, r.list_prefix))
         IN  /\ fault_budget' = CountFault(o)
             /\ th' = [th EXCEPT ![t] =
                          IF e.kind # "return"
                          THEN Raise([r EXCEPT !.exists = "raised"])
                          ELSE IF e.value
                          THEN ReturnList([r EXCEPT !.exists = "True"],
                                          <<r.list_prefix.parts>>)
                          ELSE ReturnList([r EXCEPT !.exists = "False"], <<>>)]
    /\ UNCHANGED <<wvars, pvars, cvars, stored, objects, local_file, now, live,
                   quota, ivars, bucket, disk, settled>>

\* the keys SpecList's buckets may hold
ListedKeys == {KeyA, KeyB, <<"p", "a.pdf">>, <<"p", "b.pdf">>}

\* one thread, P, makes one call of list_files on some bucket
InitList ==
    /\ InitWrapperIdle
    /\ InitInstances
    /\ InitPlanIdle
    /\ InitClientBuilt
    /\ stored = NoFile
    /\ objects = {}
    /\ local_file = NoFile
    /\ now = 1
    /\ fault_budget = MaxListFaults
    /\ live = {}
    /\ quota = [i \in Inst |-> 0]
    /\ bucket \in {[key \in StoreKeys |-> IF key \in S THEN "old" ELSE Absent] :
                      S \in SUBSET ListedKeys}
    /\ disk = InitialDisk
    /\ settled = [key \in StoreKeys |-> Unsettled]
    /\ th = [t \in Thr |-> IF t = "P" THEN IdleThread(1) ELSE IdleThread(0)]

NextList ==
    \E t \in Thr :
        \/ \E prefix \in ListPrefixes : StartListFiles(t, prefix)
        \/ ListObjects(t)
        \/ ListFallback(t)

SpecList == InitList /\ [][NextList]_vars

(***************************************************************************)
(* Claims about list_files (SpecList).                                     *)
(***************************************************************************)
\* thread t's call of list_files has ended and its listing request failed
ListingFailed(t) ==
    /\ th[t].op = "list_files"
    /\ th[t].pc = "idle"
    /\ th[t].probe = "failed"

\* C21 (as claimed): when the listing request fails, list_files returns
\* [prefix] if the prefix is non-empty, does not end with "/" and the
\* existence check on it says True, returns [] in every other case, and
\* never raises.
C21_ListFailureNeverRaises ==
    \A t \in Thr :
        ListingFailed(t) =>
            /\ th[t].result.kind = "return"
            /\ th[t].listing =
                  IF /\ th[t].list_prefix # PrefixOf(<<>>, FALSE)
                     /\ ~th[t].list_prefix.slash
                     /\ th[t].exists = "True"
                  THEN <<th[t].list_prefix.parts>>
                  ELSE <<>>

\* What list_files keeps of C21: whenever it returns after a failed
\* listing request, it returns the list the claim names.
C21_ListFailureResult ==
    \A t \in Thr :
        (ListingFailed(t) /\ th[t].result.kind = "return") =>
            th[t].listing =
                  IF /\ th[t].list_prefix # PrefixOf(<<>>, FALSE)
                     /\ ~th[t].list_prefix.slash
                     /\ th[t].exists = "True"
                  THEN <<th[t].list_prefix.parts>>
                  ELSE <<>>

(***************************************************************************)
(* SpecClient: S3DocumentStorage.__init__, _initialize_clients, reconnect, *)
(* and the operations of the constructed object.                           *)
(***************************************************************************)
\* Python's truth value of a bucket name: None and "" are false
NameTruthy(name) == name \notin {None, ""}

\* the bucket_name arguments and the values of S3_BUCKET_NAME
NameInputs == {None, "", BucketName}

\* self.session = boto3.session.Session()
new_session(obj) == [obj EXCEPT !.session = @ + 1]

\* self.s3_client = self.session.client("s3", ...)
new_client(obj) == [obj EXCEPT !.s3_client = obj.session]

\* self.s3_resource = self.session.resource("s3", ...)
new_resource(obj) == [obj EXCEPT !.s3_resource = obj.session]

\* self.bucket = self.s3_resource.Bucket(self.bucket_name)
new_bucket(obj) == [obj EXCEPT !.bucket = obj.s3_resource]

\* _initialize_clients, run with no other thread on the object: a new
\* session, and from it a new client, a new resource and the resource's
\* Bucket
initialize_clients(obj) ==
    new_bucket(new_resource(new_client(new_session(obj))))

\* self._lock = threading.RLock()
CtorLock ==
    /\ c_pc = "new"
    /\ self' = [self EXCEPT !.lock = "RLock"]
    /\ c_pc' = "bucket_name"
    /\ caller_log' = Append(caller_log, "__init__")
    /\ UNCHANGED <<wvars, pvars, svars, ivars, ovars, environ, bucket_name_arg>>

\* A variant of CtorBucketName without the test of self.bucket_name.
CtorBucketName_unchecked ==
    /\ c_pc = "bucket_name"
    /\ self' = [self EXCEPT !.bucket_name =
                    IF NameTruthy(bucket_name_arg) THEN bucket_name_arg
                    ELSE environ]
    /\ c_pc' = "settings"
    /\ UNCHANGED <<wvars, pvars, svars, ivars, ovars, environ, bucket_name_arg,
                   caller_log>>

\* self.bucket_name = bucket_name or os.getenv("S3_BUCKET_NAME"), and
\* ValueError when that is None or ""
CtorBucketName ==
    /\ c_pc = "bucket_name"
    /\ LET name == IF NameTruthy(bucket_name_arg) THEN bucket_name_arg
                   ELSE environ
       IN  /\ self' = [self EXCEPT !.bucket_name = name]
           /\ c_pc' = IF ~NameTruthy(name) THEN "ValueError" ELSE "settings"
    /\ UNCHANGED <<wvars, pvars, svars, ivars, ovars, environ, bucket_name_arg,
                   caller_log>>

\* the credentials, the endpoint, the region and self.config are stored
CtorSettings ==
    /\ c_pc = "settings"
    /\ self' = [self EXCEPT !.settings = "stored"]
    /\ c_pc' = "clients"
    /\ UNCHANGED <<wvars, pvars, svars, ivars, ovars, environ, bucket_name_arg,
                   caller_log>>

\* self._initialize_clients()
CtorClients ==
    /\ c_pc = "clients"
    /\ self' = initialize_clients(self)
    /\ c_pc' = "cache"
    /\ UNCHANGED <<wvars, pvars, svars, ivars, ovars, environ, bucket_name_arg,
                   caller_log>>

\* self._bucket_exists_cache = None, and __init__ returns
CtorCache ==
    /\ c_pc = "cache"
    /\ self' = [self EXCEPT !.bucket_exists_cache = None]
    /\ c_pc' = "done"
    /\ UNCHANGED <<wvars, pvars, svars, ivars, ovars, environ, bucket_name_arg,
                   caller_log>>

\* the reconnect() calls of the caller so far
Reconnects == Len(SelectSeq(caller_log, LAMBDA m : m = "reconnect"))

\* the positions of a reconnect() inside _initialize_clients
ReconnectPositions == {"rc_session", "rc_client", "rc_resource", "rc_bucket"}

\* __init__ has returned the object
Built == c_pc \in {"done"} \cup ReconnectPositions

\* reconnect(), called by the user of the object on a thread of its own:
\* self._lock is taken (no operation takes it) and _initialize_clients is
\* entered
Reconnect ==
    /\ c_pc = "done"
    /\ Reconnects < MaxReconnects
    /\ c_pc' = "rc_session"
    /\ caller_log' = Append(caller_log, "reconnect")
    /\ UNCHANGED <<wvars, pvars, svars, ivars, ovars, environ, bucket_name_arg,
                   self>>

\* reconnect: self.session = boto3.session.Session()
RcSession ==
    /\ c_pc = "rc_session"
    /\ self' = new_session(self)
    /\ c_pc' = "rc_client"
    /\ UNCHANGED <<wvars, pvars, svars, ivars, ovars, environ, bucket_name_arg,
                   caller_log>>

\* reconnect: self.s3_client = self.session.client(...)
RcClient ==
    /\ c_pc = "rc_client"
    /\ self' = new_client(self)
    /\ c_pc' = "rc_resource"
    /\ UNCHANGED <<wvars, pvars, svars, ivars, ovars, environ, bucket_name_arg,
                   caller_log>>

\* reconnect: self.s3_resource = self.session.resource(...)
RcResource ==
    /\ c_pc = "rc_resource"
    /\ self' = new_resource(self)
    /\ c_pc' = "rc_bucket"
    /\ UNCHANGED <<wvars, pvars, svars, ivars, ovars, environ, bucket_name_arg,
                   caller_log>>

\* reconnect: self.bucket = self.s3_resource.Bucket(...); the lock is
\* released and reconnect returns True
RcBucket ==
    /\ c_pc = "rc_bucket"
    /\ self' = new_bucket(self)
    /\ c_pc' = "done"
    /\ UNCHANGED <<wvars, pvars, svars, ivars, ovars, environ, bucket_name_arg,
                   caller_log>>

\* an object about to be constructed; its thread P will make one call on it
InitClient ==
    /\ InitIndexIdle
    /\ InitPlanIdle
    /\ bucket \in InitialBuckets
    /\ disk = InitialDisk
    /\ settled = [key \in StoreKeys |-> Unsettled]
    /\ th = [t \in Thr |-> IF t = "P" THEN IdleThread(1) ELSE IdleThread(0)]
    /\ environ \in NameInputs
    /\ bucket_name_arg \in NameInputs
    /\ self = NewObject
    /\ c_pc = "new"
    /\ caller_log = <<>>

NextClient ==
    \/ CtorLock
    \/ CtorBucketName
    \/ CtorSettings
    \/ CtorClients
    \/ CtorCache
    \/ Reconnect
    \/ RcSession
    \/ RcClient
    \/ RcResource
    \/ RcBucket
    \/ (Built /\ NextStore)
    \/ (Built /\ NextList)

SpecClient == InitClient /\ [][NextClient]_vars

(***************************************************************************)
(* Claims about the construction and the session handle (SpecClient).      *)
(***************************************************************************)
\* the session handle: session, client, resource and bucket object
Handles(obj) == <<obj.session, obj.s3_client, obj.s3_resource, obj.bucket>>

\* neither the argument nor S3_BUCKET_NAME names a bucket
NoBucketName ==
    /\ bucket_name_arg \in {"None", ""}
    /\ environ \in {"None", ""}

\* C27: when neither the parameter nor S3_BUCKET_NAME names a bucket, the
\* construction never gets past the test of the name: it ends with the
\* configuration error (ValueError) and no session, client, resource or
\* bucket handle is ever created.
C27_NoNameNoHandle ==
    NoBucketName =>
        /\ c_pc \in {"new", "bucket_name", "ValueError"}
        /\ Handles(self) = <<0, 0, 0, 0>>
        /\ \A t \in Thr : th[t].op = "none"

\* C27's case: the constructor was called without any bucket name and
\* raised.
C27_Witness ==
    /\ bucket_name_arg = "None"
    /\ environ = "None"
    /\ c_pc = "ValueError"
    /\ caller_log = <<"__init__">>

\* C28: the session handle changes only in the constructor's
\* _initialize_clients step and in the steps of a reconnect() the caller
\* invoked; no step of an operation (or of its retries) changes it, and no
\* step of an operation invokes reconnect.
C28_HandleReplacedOnlyByReconnect ==
    [][ /\ Handles(self') # Handles(self) =>
              \/ c_pc = "clients" /\ c_pc' = "cache"
              \/ /\ c_pc \in ReconnectPositions
                 /\ caller_log[Len(caller_log)] = "reconnect"
        /\ th' # th => (Handles(self') = Handles(self) /\ caller_log' = caller_log)
      ]_vars

\* C28's case: a list_files call whose listing request failed ran to its
\* end on the object, a reconnect() happened, and the handle is the second
\* one.
C28_Witness ==
    /\ caller_log = <<"__init__", "reconnect">>
    /\ Handles(self) = <<2, 2, 2, 2>>
    /\ \E t \in Thr : /\ th[t].op = "list_files"
                          /\ th[t].pc = "idle"
                          /\ th[t].probe = "failed"
                          /\ th[t].temp_clients = 1

(***************************************************************************)
(* Claims about the order of the steps of the index helpers (Spec).        *)
(***************************************************************************)
\* instance i's step enters update_metadata (the save)
SaveBegins(i) == pc[i] # "um_open" /\ pc'[i] = "um_open"

\* instance i's step ends a helper that called update_metadata, by
\* returning to the caller
ReturnsAfterSave(i) ==
    /\ pc[i] # "idle"
    /\ pc'[i] = "idle"
    /\ args[i].op \in {"upload_new_tender", "add_to_tender"}
    /\ result'[i].kind = "return"
    /\ um_result'[i].returned

\* instance i's step assigns the index just downloaded by get_bucket_info
\* to the cached copy
AssignsDownload(i) ==
    /\ pc[i] = "unt_refresh"
    /\ bucket_info'[i] = metadata[i]

\* C29 (as claimed): a helper that mutates the index (upload_new_tender
\* when it inserts, add_to_tender) mutates the cached copy, then saves,
\* and returns only after re-downloading the index into the cache.
C29_MutateSaveReload ==
    [][\A i \in Inst :
          /\ SaveBegins(i) => pc[i] \in {"unt_check", "att_mark"}
          /\ ReturnsAfterSave(i) => AssignsDownload(i)
      ]_vars

\* C29 (amended): both helpers mutate the cached copy and then save;
\* upload_new_tender returns only after re-downloading the index into the
\* cache, add_to_tender returns straight from the save, re-downloading
\* nothing.
C29_OnlyCreateReloads ==
    [][\A i \in Inst :
          /\ SaveBegins(i) =>
                /\ pc[i] \in {"unt_check", "att_mark"}
                /\ args[i].id \in DOMAIN bucket_info'[i].tender_id.items
          /\ (ReturnsAfterSave(i) /\ args[i].op = "upload_new_tender") =>
                AssignsDownload(i)
          /\ (ReturnsAfterSave(i) /\ args[i].op = "add_to_tender") =>
                /\ pc[i] = "um_upload"
                /\ bucket_info'[i] = bucket_info[i]
                /\ metadata'[i] = metadata[i]
      ]_vars

\* C29's case: add_to_tender has marked a group, saved and returned.
C29_Witness ==
    \E i \in Inst :
        /\ args[i].op = "add_to_tender"
        /\ pc[i] = "idle"
        /\ result[i].kind = "return"
        /\ um_result[i].returned
        /\ bucket_info[i].tender_id.shape = "dict"
        /\ args[i].id \in DOMAIN bucket_info[i].tender_id.items
        /\ bucket_info[i].tender_id.items[args[i].id].documents

(***************************************************************************)
(* SpecGroup: TenderStorage.upload_new_tender followed by                  *)
(* get_tender_documents, which is list_files(prefix=tender_id).            *)
(***************************************************************************)
\* the thread on which the caller of a TenderStorage instance runs
CallerOf(i) == IF i = "A" THEN "P" ELSE "Q"

\* the document_paths of SpecGroup's upload_new_tender calls
GroupPathLists == {<<PathA, PathB>>, <<PathB, PathA>>}

\* The document keys of the model in the order in which list_objects_v2
\* reports keys (by their bytes: "/" sorts before "0").
GroupSortedKeys ==
    << <<"t1", "a.pdf">>, <<"t1", "b.pdf">>,
       <<"t1", "documents", "a.pdf">>, <<"t1", "documents", "b.pdf">>,
       <<"t10", "a.pdf">>, <<"t10", "b.pdf">>,
       <<"t10", "documents", "a.pdf">>, <<"t10", "documents", "b.pdf">>,
       <<"t2", "a.pdf">>, <<"t2", "b.pdf">>,
       <<"t2", "documents", "a.pdf">>, <<"t2", "documents", "b.pdf">> >>

\* the characters of a name of the model
chars(name) ==
    CASE name = "t1" -> <<"t", "1">>
      [] name = "t10" -> <<"t", "1", "0">>
      [] name = "t2" -> <<"t", "2">>
      [] name = "documents" -> <<"d", "o", "c", "u", "m", "e", "n", "t", "s">>
      [] name = "a.pdf" -> <<"a", ".", "p", "d", "f">>
      [] name = "b.pdf" -> <<"b", ".", "p", "d", "f">>

\* the key as the string S3 holds: its parts joined by "/"
RECURSIVE key_text(_)
key_text(parts) ==
    IF parts = <<>> THEN <<>>
    ELSE IF Len(parts) = 1 THEN chars(parts[1])
    ELSE chars(parts[1]) \o <<"/">> \o key_text(Tail(parts))

\* the Prefix argument as a string
prefix_text(prefix) ==
    key_text(prefix.parts) \o (IF prefix.slash THEN <<"/">> ELSE <<>>)

\* Prefix=...: the key's string begins with the prefix's string
str_startswith(text, p) ==
    /\ Len(p) <= Len(text)
    /\ SubSeq(text, 1, Len(p)) = p

\* response["Contents"] of list_objects_v2(Bucket, Prefix=prefix), as keys,
\* for the bucket of Spec
list_group_objects(objs, prefix) ==
    SelectSeq(GroupSortedKeys,
              LAMBDA key : key \in objs
                           /\ str_startswith(key_text(key), prefix_text(prefix)))

\* documents = self.s3_document_storage.list_files(prefix=tender_id).  The
\* call is recorded in th, with the number of operations the caller may
\* still start; args, puts and result keep the record of the instance's
\* last operation on the index.
StartGetTenderDocuments(i, tender_id) ==
    /\ pc[i] = "idle"
    /\ quota[i] > 0
    /\ quota' = [quota EXCEPT ![i] = @ - 1]
    /\ pc' = [pc EXCEPT ![i] = "gtd_list"]
    /\ th' = [th EXCEPT ![CallerOf(i)] =
                 [IdleThread(quota[i] - 1) EXCEPT
                     !.pc = "lf_list", !.op = "get_tender_documents",
                     !.list_prefix = PrefixOf(<<tender_id>>, FALSE)]]
    /\ UNCHANGED <<wvars, pvars, cvars, stored, objects, local_file, now,
                   fault_budget, live, ret, bucket_info, args, k, metadata,
                   retries, calls, puts, um_result, pre, pre_info, pre_loaded,
                   result, bucket, disk, settled>>

\* list_files' try block, on the bucket of Spec
GtdList(i) ==
    /\ pc[i] = "gtd_list"
    /\ \E o \in RemoteOutcomes :
         LET t == CallerOf(i)
             r == [NotedTemp(th[t], o) EXCEPT
                      !.temp_clients = @ + 1,
                      !.probe = IF o.kind = "return" THEN "ok" ELSE "failed"]
             fallback == o.kind # "return" /\ NamesOneFile(r.list_prefix)
         IN  /\ fault_budget' = CountFault(o)
             /\ th' = [th EXCEPT ![t] =
                          IF o.kind = "return"
                          THEN ReturnList(r, list_group_objects(objects, r.list_prefix))
                          ELSE IF fallback
                          THEN [r EXCEPT !.pc = "lf_exists"]
                          ELSE ReturnList(r, <<>>)]
             /\ pc' = [pc EXCEPT ![i] = IF fallback THEN "gtd_exists" ELSE "idle"]
    /\ UNCHANGED <<wvars, pvars, cvars, stored, objects, local_file, now, live,
                   quota, ret, bucket_info, args, k, metadata, retries, calls,
                   puts, um_result, pre, pre_info, pre_loaded, result, bucket,
                   disk, settled>>

\* list_files' except block, on the bucket of Spec
GtdFallback(i) ==
    /\ pc[i] = "gtd_exists"
    /\ \E o \in RemoteOutcomes :
         LET t == CallerOf(i)
             r == Noted(th[t], o)
             e == file_exists(o, r.list_prefix.parts \in objects)
         IN  /\ fault_budget' = CountFault(o)
             /\ th' = [th EXCEPT ![t] =
                          IF e.kind # "return"
                          THEN Raise([r EXCEPT !.exists = "raised"])
                          ELSE IF e.value
                          THEN ReturnList([r EXCEPT !.exists = "True"],
                                          <<r.list_prefix.parts>>)
                          ELSE ReturnList([r EXCEPT !.exists = "False"], <<>>)]
    /\ pc' = [pc EXCEPT ![i] = "idle"]
    /\ UNCHANGED <<wvars, pvars, cvars, stored, objects, local_file, now, live,
                   quota, ret, bucket_info, args, k, metadata, retries, calls,
                   puts, um_result, pre, pre_info, pre_loaded, result, bucket,
                   disk, settled>>

NextGroup ==
    \E i \in Inst :
        \/ Construct(i)
        \/ InitDone(i)
        \/ GbiExists(i)
        \/ GbiOpen(i)
        \/ GbiDump(i)
        \/ GbiUpload(i)
        \/ DlExists(i)
        \/ DlSize(i)
        \/ DlGet(i)
        \/ GbiLoad(i)
        \/ \E g \in GroupIds : \E data \in DataOf(g) :
             \E document_paths \in GroupPathLists : \E publication \in BOOLEAN :
                StartUploadNewTender(i, data, document_paths, publication)
        \/ UntUpload(i)
        \/ UntCheck(i)
        \/ UntRefresh(i)
        \/ UmOpen(i)
        \/ UmDump(i)
        \/ UmUpload(i)
        \/ \E tender_id \in GroupIds : StartGetTenderDocuments(i, tender_id)
        \/ GtdList(i)
        \/ GtdFallback(i)

\* one TenderStorage, whose caller starts up to MaxOps operations
SpecGroup == Init /\ [][NextGroup]_vars

(***************************************************************************)
(* Claim about listing a group's documents (SpecGroup).                    *)
(***************************************************************************)
\* instance i's last index operation was upload_new_tender, which returned,
\* and after it (no operation was started since) the caller listed that
\* group's documents
ListedAfterCreate(i) ==
    /\ Ended(i, "upload_new_tender")
    /\ result[i].kind = "return"
    /\ th[CallerOf(i)].op = "get_tender_documents"
    /\ th[CallerOf(i)].pc = "idle"
    /\ th[CallerOf(i)].quota = quota[i]
    /\ th[CallerOf(i)].list_prefix = PrefixOf(<<args[i].id>>, FALSE)

\* the bucket holds no key that begins with the group's id other than the
\* keys of the files of instance i's upload_new_tender
NoOtherKeyOfGroup(i) ==
    \A key \in objects :
        key[1] = args[i].id =>
            \E n \in 1..Len(args[i].paths) :
                key = <<args[i].id, Basename(args[i].paths[n])>>

\* C22 (as claimed): after createGroup(g, [f1..fn], publication) on a
\* bucket that holds no other key starting with g, get_tender_documents(g)
\* returns exactly g/basename(f1) .. g/basename(fn), in upload order.
C22_ListsUploadedInOrder ==
    \A i \in Inst :
        (ListedAfterCreate(i) /\ NoOtherKeyOfGroup(i)) =>
            /\ th[CallerOf(i)].result.kind = "return"
            /\ th[CallerOf(i)].listing = TenderKeys(i)

\* C22 without the order, which also fails: the keys listed are the keys
\* of the files handed to createGroup.
C22_ListsUploaded ==
    \A i \in Inst :
        (ListedAfterCreate(i) /\ NoOtherKeyOfGroup(i)) =>
            /\ th[CallerOf(i)].result.kind = "return"
            /\ {th[CallerOf(i)].listing[n] : n \in 1..Len(th[CallerOf(i)].listing)}
                  = {TenderKeys(i)[n] : n \in 1..Len(args[i].paths)}

(***************************************************************************)
(* SpecSeq: two TenderStorage instances on one bucket, A and B, both       *)
(* constructed before any call; A's upload_new_tender runs to its end and  *)
(* then B's does.  No remote call fails.                                   *)
(***************************************************************************)
\* instance i's constructor has returned and i has made no call yet
Constructed(i) ==
    /\ args[i].op = "init"
    /\ pc[i] = "idle"
    /\ result[i].kind = "return"

NextSeq ==
    \E i \in Inst :
        \/ Construct(i)
        \/ InitDone(i)
        \/ GbiExists(i)
        \/ GbiOpen(i)
        \/ GbiDump(i)
        \/ GbiUpload(i)
        \/ DlExists(i)
        \/ DlSize(i)
        \/ DlGet(i)
        \/ GbiLoad(i)
        \/ \E g \in GroupIds : \E data \in DataOf(g) :
             \E document_paths \in PathLists : \E publication \in BOOLEAN :
                /\ IF i = "A" THEN Constructed("B")
                   ELSE args["A"].op = "upload_new_tender" /\ pc["A"] = "idle"
                /\ StartUploadNewTender(i, data, document_paths, publication)
        \/ UntUpload(i)
        \/ UntCheck(i)
        \/ UntRefresh(i)
        \/ UmOpen(i)
        \/ UmDump(i)
        \/ UmUpload(i)

SpecSeq == InitConc /\ [][NextSeq]_vars

(***************************************************************************)
(* Claim about two instances used one after the other (SpecSeq).           *)
(***************************************************************************)
\* A's upload_new_tender inserted its group and returned, and then B's,
\* for another id, did the same on the cache B had loaded before A's call
BothInsertedInTurn ==
    /\ \A i \in Inst : Ended(i, "upload_new_tender") /\ result[i].kind = "return"
    /\ args["A"].id # args["B"].id
    /\ args["A"].id \notin FileGroups(pre["A"])
    /\ args["A"].id \in FileGroups(pre["B"])
    /\ args["A"].id \notin DocGroups(pre_info["B"])
    /\ args["B"].id \notin FileGroups(pre["B"])

\* C31 (as claimed): when A has finished createGroup(g1) and then B, whose
\* cache was loaded before A's call, has run createGroup(g2), the stored
\* index contains both g1 and g2.
C31_LaterCreateKeepsGroup ==
    BothInsertedInTurn =>
        /\ args["A"].id \in FileGroups(stored)
        /\ args["B"].id \in FileGroups(stored)

(***************************************************************************)
(* One TenderStorage used by one caller: what its calls do to the stored   *)
(* index while no remote call has failed.                                  *)
(***************************************************************************)
\* the documents flag the stored index holds for group g (FALSE when the
\* index does not map g)
StoredFlag(file, g) ==
    /\ g \in FileGroups(file)
    /\ file.doc.tender_id.items[g].documents

\* C32: with one instance used sequentially and no remote failure, no step
\* of upload_new_tender or add_to_tender removes a group id from the stored
\* index, and no step turns a group's documents flag from true to false.
C32_StoredIndexOnlyGrows ==
    [][NoFaultYet' =>
          /\ FileGroups(stored) \subseteq FileGroups(stored')
          /\ \A g \in GroupIds : StoredFlag(stored, g) => StoredFlag(stored', g)
      ]_vars

\* C32's case: upload_new_tender has inserted a group, add_to_tender has
\* then marked a group, and the stored index holds both changes.
C32_Witness ==
    /\ NoFaultYet
    /\ live = {"A"}
    /\ Ended("A", "add_to_tender")
    /\ result["A"].kind = "return"
    /\ FileGroups(pre["A"]) # {}
    /\ FileGroups(stored) = GroupIds
    /\ \E g \in GroupIds : StoredFlag(stored, g)

\* the objects of the bucket whose key is groupId/documents/<name>
ObjectsUnderDocuments(g) ==
    { key \in objects : Len(key) = 3 /\ key[1] = g /\ key[2] = "documents" }

\* C33 (as claimed): a group whose documents flag is true in the stored
\* index has at least one object under groupId/documents/ (no object is
\* ever deleted in these runs).
C33_FlagImpliesDocument ==
    \A g \in GroupIds : StoredFlag(stored, g) => ObjectsUnderDocuments(g) # {}

(***************************************************************************)
(* get_bucket_info after the calls that leave metadata_file in the working *)
(* directory.                                                              *)
(***************************************************************************)
\* SpecIndex's calls with one more remote call that may fail: the upload of
\* update_metadata and the download of a later get_bucket_info can both
\* fail.
InitScratch ==
    /\ InitStoreIdle
    /\ InitWrapperIdle
    /\ stored \in InitialStoredIndex
    /\ objects = {}
    /\ local_file = NoFile
    /\ now = 0
    /\ fault_budget = MaxFaults + 1
    /\ live = Inst
    /\ quota = [i \in Inst |-> IF i = "A" THEN MaxOps ELSE 1]
    /\ pc = [i \in Inst |-> "idle"]
    /\ ret = [i \in Inst |-> "-"]
    /\ bucket_info = [i \in Inst |-> NullDoc]
    /\ args = [i \in Inst |-> NoArgs]
    /\ k = [i \in Inst |-> 1]
    /\ metadata = [i \in Inst |-> NullDoc]
    /\ retries = [i \in Inst |-> 0]
    /\ calls = [i \in Inst |-> 0]
    /\ puts = [i \in Inst |-> <<>>]
    /\ um_result = [i \in Inst |-> NoUm]
    /\ pre = [i \in Inst |-> NoFile]
    /\ pre_info = [i \in Inst |-> NullDoc]
    /\ pre_loaded = [i \in Inst |-> FALSE]
    /\ result = [i \in Inst |-> NoResult]

SpecScratch == InitScratch /\ [][NextIndex]_vars

\* get_bucket_info's last step: it has read metadata_file and returns
LoadReturns(i) ==
    /\ pc[i] = "gbi_load"
    /\ pc'[i] = ret[i]

\* C34 (as claimed): when the index key exists, get_bucket_info returns the
\* document that is stored under the key or raises; it never returns what
\* an earlier call left in the local file.
C34_ReturnsStoredOrFails ==
    [][\A i \in Inst :
          LoadReturns(i) =>
              /\ stored.kind = "json"
              /\ metadata'[i] = stored.doc
      ]_vars

(***************************************************************************)
(* update_metadata of two callers that share the working directory.        *)
(***************************************************************************)
\* update_metadata of instance i has uploaded metadata_file in this step
SaveUploads(i) ==
    /\ pc[i] = "um_upload"
    /\ pc'[i] # "um_upload"
    /\ um_result'[i].uploaded

\* C35 (as claimed): what update_metadata uploads is the serialization of
\* the index it was called with, also when another caller's update_metadata
\* or get_bucket_info runs at the same time in the same working directory.
C35_UploadsOwnArgument ==
    [][\A i \in Inst : SaveUploads(i) => stored' = json_dump(bucket_info[i])]_vars

(***************************************************************************)
(* SpecPrefix: upload_new_tender and get_tender_documents for groups one   *)
(* of whose ids begins with the other's.                                   *)
(***************************************************************************)
PrefixGroupIds == {"t1", "t10"}

NextPrefix ==
    \E i \in Inst :
        \/ Construct(i)
        \/ InitDone(i)
        \/ GbiExists(i)
        \/ GbiOpen(i)
        \/ GbiDump(i)
        \/ GbiUpload(i)
        \/ DlExists(i)
        \/ DlSize(i)
        \/ DlGet(i)
        \/ GbiLoad(i)
        \/ \E g \in PrefixGroupIds : \E data \in DataOf(g) :
             \E document_paths \in GroupPathLists : \E publication \in BOOLEAN :
                StartUploadNewTender(i, data, document_paths, publication)
        \/ UntUpload(i)
        \/ UntCheck(i)
        \/ UntRefresh(i)
        \/ UmOpen(i)
        \/ UmDump(i)
        \/ UmUpload(i)
        \/ \E tender_id \in PrefixGroupIds : StartGetTenderDocuments(i, tender_id)
        \/ GtdList(i)
        \/ GtdFallback(i)

SpecPrefix == Init /\ [][NextPrefix]_vars

\* the caller of instance i has listed a group's documents and got a list
ListedGroup(i) ==
    /\ th[CallerOf(i)].op = "get_tender_documents"
    /\ th[CallerOf(i)].pc = "idle"
    /\ th[CallerOf(i)].result.kind = "return"

\* C36 (as claimed): get_tender_documents(g) returns only keys that consist
\* of g, a "/" and more: no key of another group whose id begins with g.
C36_OnlyKeysOfTheGroup ==
    \A i \in Inst :
        ListedGroup(i) =>
            \A n \in 1..Len(th[CallerOf(i)].listing) :
                LET key == th[CallerOf(i)].listing[n]
                IN  /\ Len(key) > 1
                    /\ <<key[1]>> = th[CallerOf(i)].list_prefix.parts

(***************************************************************************)
(* Operations that overlap a reconnect() (SpecClient).                     *)
(***************************************************************************)
\* the handles through which the remote calls of thread t's running or
\* last operation went
HandlesUsed(t) == { th[t].clients[n] : n \in 1..Len(th[t].clients) }

\* C37 (as claimed): download_file makes its existence probe, its size
\* probe and its transfer on one handle, the old one or the new one, also
\* when a reconnect() overlaps it.
C37_OneHandlePerOperation ==
    \A t \in Thr :
        th[t].op = "download_file" => Cardinality(HandlesUsed(t)) <= 1

\* C37's second half (as claimed): while an operation is running, the
\* object never holds the new client next to the old resource or bucket.
C37_ClientNeverAheadOfBucket ==
    \A t \in Thr :
        th[t].pc # "idle" =>
            /\ self.s3_client = self.s3_resource
            /\ self.s3_client = self.bucket

(***************************************************************************)
(* SpecBudget: calls of a method decorated with                            *)
(* @retry_s3_operation(max_retries=3), made one after the other and at the *)
(* same time on one object, while the object's user calls reconnect().     *)
(* The method's body is an arbitrary func, as in SpecRetry.                *)
(***************************************************************************)
\* what func may do at one invocation
WrappedOutcomes == {Ret(TRUE)} \cup RemoteFailures

\* A variant of StartWrapped whose counter is kept from the thread's
\* previous call instead of being set to 0.
StartWrapped_kept(t) ==
    /\ th[t].pc = "idle"
    /\ th[t].quota > 0
    /\ th' = [th EXCEPT ![t] =
                 [IdleThread(th[t].quota - 1) EXCEPT
                     !.pc = "w_call", !.op = "wrapped",
                     !.retries = th[t].retries,
                     !.before = [op |-> th[t].op, key |-> th[t].key,
                                 result |-> th[t].result,
                                 had |-> th[t].pre[th[t].key]]]]
    /\ UNCHANGED <<wvars, pvars, cvars, svars, ivars, bucket, disk, settled>>

\* wrapper(*args, **kwargs) is entered: retries = 0
StartWrapped(t) ==
    /\ th[t].pc = "idle"
    /\ th[t].quota > 0
    /\ th' = [th EXCEPT ![t] =
                 [IdleThread(th[t].quota - 1) EXCEPT
                     !.pc = "w_call", !.op = "wrapped",
                     !.retries = 0,
                     !.before = [op |-> th[t].op, key |-> th[t].key,
                                 result |-> th[t].result,
                                 had |-> th[t].pre[th[t].key]]]]
    /\ UNCHANGED <<wvars, pvars, cvars, svars, ivars, bucket, disk, settled>>

\* One iteration of the wrapper's loop in thread t: func is invoked, and
\* the wrapper returns its value, re-raises its exception, or sleeps and
\* loops.
WrappedCall(t) ==
    /\ th[t].pc = "w_call"
    /\ \E o \in WrappedOutcomes :
         LET w == wrapper(o, th[t].retries, MAX_RETRIES, NoCodes)
             r == [th[t] EXCEPT !.calls = @ + 1,
                                !.attempts = Append(@, ErrName(o)),
                                !.retries = w.retries]
         IN  th' = [th EXCEPT ![t] =
                       CASE w.act = "retry" -> r
                         [] w.act = "raise" -> Raise(r)
                         [] OTHER -> Return(r, o.value)]
    /\ UNCHANGED <<wvars, pvars, cvars, svars, ivars, bucket, disk, settled>>

\* P makes up to MaxOps calls one after the other, Q makes one call
InitBudget ==
    /\ InitIndexIdle
    /\ InitPlanIdle
    /\ InitClientBuilt
    /\ bucket = [key \in StoreKeys |-> Absent]
    /\ disk = InitialDisk
    /\ settled = [key \in StoreKeys |-> Unsettled]
    /\ th = [t \in Thr |-> IF t = "P" THEN IdleThread(MaxOps) ELSE IdleThread(1)]

NextBudget ==
    \/ \E t \in Thr : StartWrapped(t)
    \/ \E t \in Thr : WrappedCall(t)
    \/ Reconnect
    \/ RcSession
    \/ RcClient
    \/ RcResource
    \/ RcBucket

SpecBudget == InitBudget /\ [][NextBudget]_vars

\* the errors of a ClientError, all of which this decorator retries
Retried(name) == name \notin {"-", "Exception"}

\* C38: every wrapped call has the whole budget of its own, whatever calls
\* ran before it or run beside it on the same object and whether or not a
\* reconnect() happens meanwhile: it goes on as long as func has failed
\* with retried errors at most MAX_RETRIES times, and it gives up on a
\* retried error only at invocation MAX_RETRIES + 1.
C38_FullBudgetPerCall ==
    \A t \in Thr :
        th[t].op = "wrapped" =>
            LET tried == th[t].attempts
                n == Len(tried)
            IN  /\ \A m \in 1..(n - 1) : Retried(tried[m])
                /\ th[t].pc = "w_call" =>
                      /\ n <= MAX_RETRIES
                      /\ \A m \in 1..n : Retried(tried[m])
                /\ th[t].pc = "idle" =>
                      /\ n >= 1
                      /\ Retried(tried[n]) => n = MAX_RETRIES + 1
                      /\ th[t].result.kind = "return" <=> tried[n] = "-"

\* C38's case: P's earlier call used up its budget, P's next call has used
\* up its own as well, Q's call is in its retries meanwhile, and a
\* reconnect() is under way.
C38_Witness ==
    /\ th["P"].op = "wrapped"
    /\ th["P"].before.op = "wrapped"
    /\ th["P"].before.result.kind = "raise"
    /\ th["P"].pc = "idle"
    /\ Len(th["P"].attempts) = MAX_RETRIES + 1
    /\ Retried(th["P"].attempts[MAX_RETRIES + 1])
    /\ th["Q"].pc = "w_call"
    /\ Len(th["Q"].attempts) = 2
    /\ c_pc \in ReconnectPositions

====
